---- MODULE Spec2Model ----
(***************************************************************************)
(* Model of the audio engine's real-time substrate.                        *)
(*                                                                         *)
(* Part 1: buffer/ring.rs, the SPSC ring buffer.  RingBufferWriter and     *)
(* RingBufferReader wrap rtrb's Producer and Consumer.  rtrb is an         *)
(* external crate: each of its calls (push, pop, peek) is modelled as one  *)
(* atomic step on a bounded FIFO, which is its documented contract         *)
(* (push fails when `capacity` elements are queued, pop and peek fail when *)
(* none is; a capacity of 0 is accepted and gives a queue that is always   *)
(* full and always empty).  The loops that ring.rs builds on these calls   *)
(* (push_slice, push_all, pop_slice, discard) are modelled one iteration   *)
(* per step, so the other thread's calls interleave between iterations.    *)
(*                                                                         *)
(* Part 2: channel/mod.rs, the control and feedback channels.  Both wrap   *)
(* one flume::bounded channel; flume is an external crate and is modelled  *)
(* by its contract: every call works on the channel under its lock, a      *)
(* blocked send parks its message in the channel's list of waiting senders *)
(* (from which a receive moves it into the queue), and a send that finds   *)
(* the receiver blocked hands its message over directly.                   *)
(*                                                                         *)
(* Part 3: buffer/realtime.rs, RealtimeBuffer: a boxed slice allocated at   *)
(* construction and a length.  Every method is one step.                   *)
(*                                                                         *)
(* Part 4: buffer/realtime.rs, AudioBuffer: interleaved samples in a        *)
(* RealtimeBuffer built by with_value, with a frame count and a channel    *)
(* count.  usize is modelled as a word of UsizeBits bits; the arithmetic   *)
(* on it wraps where the build has no overflow checks and panics where it  *)
(* has them.                                                               *)
(*                                                                         *)
(* Part 5: dsp/params.rs, SmoothParam.  f32 is modelled as a binary         *)
(* floating-point format with a significand of F32Bits bits and            *)
(* round-to-nearest, ties-to-even: every sum, product and quotient is      *)
(* rounded to the format, as the hardware rounds it to f32.  Values are    *)
(* counted in units of the format's smallest step.                         *)
(*                                                                         *)
(* Part 6: dsp/gain.rs, dsp/pan.rs, dsp/filters.rs: one effect, a           *)
(* GainEffect, a PanEffect or a BiquadFilter.  process runs on the audio   *)
(* thread with exclusive access and is one step.  Linear values (samples,  *)
(* gains, pan positions) are f32 values with 1.0 standing at One units;    *)
(* the transcendental functions (powf, sin, cos) are tabulated on the      *)
(* values the model uses.                                                  *)
(*                                                                         *)
(* Part 7: error.rs, AudioEngineError: one error value, the operation     *)
(* that returned it, and what is_recoverable and is_fatal answered for it. *)
(*                                                                         *)
(* Part 8: types/sample.rs, the conversion of a u32 to a SampleRate: one  *)
(* call and its result.                                                    *)
(*                                                                         *)
(* Part 9: audio/stream.rs, input_callback and output_callback: the audio  *)
(* thread runs a callback on one end of a ring buffer of its own, one pass *)
(* of the callback's loop per step, while another thread uses the other    *)
(* end.                                                                    *)
(*                                                                         *)
(* Each specification runs one part; the variables of the other parts stay *)
(* at their initial values.                                                *)
(***************************************************************************)
EXTENDS Integers, Sequences, FiniteSets, TLC

\* Bounds of the model.
MaxCap == 2
MaxLen == 3
MaxElems == 4
MaxChanCap == 1
MaxSenders == 2
MaxMsgs == 3
MaxBufCap == 2
MaxVal == 1
MaxSamples == 4
MaxParam == 14
MaxRamp == 4
MaxBlock == 4
MaxField == 2
MaxNear == 10

VARIABLES
    reqcap,     \* the argument c of RingBuffer::new(c)
    capacity,   \* rtrb's capacity, fixed at construction
    queue,      \* the elements rtrb holds, oldest first
    wpc,        \* writer thread: "idle", "push_slice", "push_all", "dropped"
    wcaller,    \* who called push_slice: "user" or "push_all"
    wall,       \* push_all: the slice argument
    wremaining, \* push_all: `remaining`
    wslice,     \* push_slice: `slice`
    wi,         \* push_slice: position of the `for` iterator (1-based)
    wcount,     \* push_slice: `count`
    wret,       \* the writer's last return value
    rpc,        \* reader thread: "idle", "pop_slice", "discard", "dropped"
    rdst,       \* pop_slice: `slice` (the destination)
    ri,         \* pop_slice / discard: position of the `for` iterator (1-based)
    rcount,     \* pop_slice: `count`; discard: `discarded`
    rn,         \* discard: the argument `count`
    rret,       \* the reader's last return value
    \* History of the run (never read by the program).
    accepted,   \* elements the writer's interface reported as enqueued
    removed,    \* elements rtrb gave up, each with the operation that took it
    delivered,  \* elements the reader's interface returned to its caller
    wstart,     \* snapshot taken when the writer's current call began, or
                \* when the writer was dropped
    rstart,     \* snapshot taken when the reader's current call began, or
                \* when the reader was dropped
    \* Part 2: one channel of channel/mod.rs.
    chkind,     \* "control" (control_channel) or "feedback" (feedback_channel)
    chreq,      \* the argument c of control_channel(c) / feedback_channel(c)
    chcap,      \* the capacity flume::bounded was given
    chq,        \* flume's queue, oldest message first
    chsending,  \* flume's waiting senders: the messages of blocked sends
    chslot,     \* the slot of the blocked receiver: <<>> or <<message>>
    spc,        \* per sender handle: "absent", "idle", "send", "dropped"
    sret,       \* per sender handle: the last return value
    rxpc,       \* receiver: "idle", "process_all", "recv", "recv_timeout",
                \* "dropped"
    rxret,      \* the receiver's last return value
    \* History of the channel (never read by the program).
    chaccepted, \* messages whose send returned Ok / true
    chremoved,  \* messages flume gave to the receiver, in that order
    chreceived, \* messages the receiver's interface returned or passed on
    rxstart,    \* process_all: the queue when the call began
    sstart,     \* per sender handle with a blocked send: the number of
                \* messages the receiver had been given when the send began
    \* Part 3: one RealtimeBuffer of buffer/realtime.rs.
    rbreq,      \* the argument `capacity` of the constructor
    rbdata,     \* `data`, the boxed slice
    rblen,      \* `len`
    rbret,      \* the last call: its name, its argument and its outcome
    \* Part 4: one AudioBuffer of buffer/realtime.rs.
    abframes,   \* `frames`
    abchannels, \* `channels`, as the number it stands for
    abdata,     \* `data`: the samples of the RealtimeBuffer (len == capacity)
    abret,      \* the last call: its name, its arguments and its outcome
    \* Part 5: one SmoothParam of dsp/params.rs.
    current,           \* `current`
    target,            \* `target`
    increment,         \* `increment`
    samples_remaining, \* `samples_remaining`
    spret,             \* the last call: its name, its arguments, its result
    \* History of the parameter (never read by the program).
    spramp,            \* the last set_target(t, n) and the number of next()
                       \* calls made since, while nothing else was called
    \* Part 6: one effect of dsp/gain.rs, dsp/pan.rs or dsp/filters.rs.
    fxkind,     \* "gain", "pan" or "biquad"
    fxenabled,  \* `enabled`
    fxrate,     \* `sample_rate`
    fxparams,   \* the SmoothParam fields, by name
    fxtype,     \* BiquadFilter: `filter_type` ("none" for the other effects)
    fxcoeffs,   \* BiquadFilter: `coeffs`
    fxdirty,    \* BiquadFilter: `coeffs_dirty`
    fxstates,   \* BiquadFilter: `states`, the history of channels 0..7
    fxret,      \* the last call: its name, its arguments and its outcome
    \* Part 7: one AudioEngineError of error.rs.
    errval,     \* the error: its variant and the value of its field
    errfrom,    \* the call that returned it ("new": built by hand)
    errrec,     \* what is_recoverable answered for it ("none": not asked)
    errfat,     \* what is_fatal answered for it ("none": not asked)
    \* Part 8: one conversion of types/sample.rs.
    srvalue,    \* the u32 handed to SampleRate::try_from
    srrate,     \* the rate whose as_hz() it is ("none": any other u32)
    srret,      \* what try_from returned
    \* Part 9: one stream of audio/stream.rs.
    stkind,     \* "input" (AudioInputStream) or "output" (AudioOutputStream)
    stcap,      \* the capacity of the stream's ring buffer
    stq,        \* the elements its rtrb queue holds, oldest first
    stpc,       \* the audio thread: "idle", "input_callback",
                \* "output_callback"
    stdata,     \* the callback's `data`
    sti,        \* position of the callback's `for` iterator (1-based)
    stret,      \* the last callback that returned, and `data` as it left it
    \* History of the stream (never read by the program).
    stoffered,  \* input: the samples handed to the callbacks so far;
                \* output: the samples the other thread has pushed
    sttaken,    \* the samples popped so far, in that order
    stmark,     \* Len(sttaken) when the current or last callback began
    stfar       \* the other thread used its end during the current or
                \* last callback

ringvars == <<reqcap, capacity, queue, wpc, wcaller, wall, wremaining, wslice,
              wi, wcount, wret, rpc, rdst, ri, rcount, rn, rret,
              accepted, removed, delivered, wstart, rstart>>

chconf == <<chkind, chreq, chcap>>
chanvars == <<chconf, chq, chsending, chslot, spc, sret, rxpc, rxret,
              chaccepted, chremoved, chreceived, rxstart, sstart>>

rbvars == <<rbreq, rbdata, rblen, rbret>>

abvars == <<abframes, abchannels, abdata, abret>>

spstate == <<current, target, increment, samples_remaining>>
spvars == <<spstate, spret, spramp>>

fxfilter == <<fxtype, fxcoeffs, fxdirty, fxstates>>
fxvars == <<fxkind, fxenabled, fxrate, fxparams, fxfilter, fxret>>

errvars == <<errval, errfrom, errrec, errfat>>

srvars == <<srvalue, srrate, srret>>

sthist == <<stoffered, sttaken, stmark, stfar>>
stvars == <<stkind, stcap, stq, stpc, stdata, sti, stret, sthist>>

vars == <<ringvars, chanvars, rbvars, abvars, spvars, fxvars, errvars,
          srvars, stvars>>

\* What the operations of one part leave alone: the other parts.
outsideRing ==
    <<chanvars, rbvars, abvars, spvars, fxvars, errvars, srvars, stvars>>
outsideChan ==
    <<ringvars, rbvars, abvars, spvars, fxvars, errvars, srvars, stvars>>
outsideBuf ==
    <<ringvars, chanvars, abvars, spvars, fxvars, errvars, srvars, stvars>>
outsideAudio ==
    <<ringvars, chanvars, rbvars, spvars, fxvars, errvars, srvars, stvars>>
outsideParam ==
    <<ringvars, chanvars, rbvars, abvars, fxvars, errvars, srvars, stvars>>
outsideEffect ==
    <<ringvars, chanvars, rbvars, abvars, spvars, errvars, srvars, stvars>>
outsideError ==
    <<ringvars, chanvars, rbvars, abvars, spvars, fxvars, srvars, stvars>>
outsideRate ==
    <<ringvars, chanvars, rbvars, abvars, spvars, fxvars, errvars, stvars>>
outsideStream ==
    <<ringvars, chanvars, rbvars, abvars, spvars, fxvars, errvars, srvars>>

wlocals == <<wcaller, wall, wremaining, wslice, wi, wcount>>
rlocals == <<rdst, ri, rcount, rn>>
whist == <<accepted, wstart>>
rhist == <<removed, delivered, rstart>>
writerSide == <<wpc, wlocals, wret, whist>>
readerSide == <<rpc, rlocals, rret, rhist>>

--------------------------------------------------------------------------
\* Helpers

Min(a, b) == IF a < b THEN a ELSE b

Vals(s) == [i \in 1..Len(s) |-> s[i].val]

IsPrefix(s, t) == Len(s) <= Len(t) /\ SubSeq(t, 1, Len(s)) = s

\* The slice a caller hands to the writer: elements are numbered in the order
\* of their acceptance, so the caller offers the n elements that follow the
\* ones accepted so far (a rejected element is offered again by a later call).
Fresh(n) == [i \in 1..n |-> Len(accepted) + i]

\* A destination slice of length n whose entries are told apart from every
\* queued element (elements are >= 1) and from each other.
DstInit(n) == [i \in 1..n |-> 0 - i]

\* The value a call returned, kept until the same thread's next call begins
\* (as is the destination of pop_slice); NoRet when there is none.
WRet(op, err, val) == [op |-> op, err |-> err, val |-> val]
RRet(op, err, val) == [op |-> op, err |-> err, val |-> val]
NoRet == [op |-> "none", err |-> "none", val |-> 0]

\* Snapshots of the history at the start of a call; NoSnap between calls.
NoSnap == [acc |-> 0, rem |-> 0, qlen |-> 0]
Snap == [acc |-> Len(accepted), rem |-> Len(removed), qlen |-> Len(queue)]

\* Everything rtrb was ever given, in the order it was given.
Enqueued == Vals(removed) \o queue

--------------------------------------------------------------------------
\* rtrb, the external SPSC queue, by its contract.

\* rtrb::RingBuffer::new(capacity)
RtrbNew(c) == [capacity |-> c, queue |-> <<>>]

\* rtrb::Producer::push: Err(PushError::Full) when no slot is free.
RtrbPush(q, cap, v) ==
    IF Len(q) < cap THEN [ok |-> TRUE, q |-> Append(q, v)]
                    ELSE [ok |-> FALSE, q |-> q]

\* rtrb::Consumer::pop: Err(PopError::Empty) when nothing is queued.
RtrbPop(q) ==
    IF q # <<>> THEN [ok |-> TRUE, val |-> Head(q), q |-> Tail(q)]
                ELSE [ok |-> FALSE, val |-> 0, q |-> q]

\* rtrb::Consumer::peek: Err(PeekError::Empty) when nothing is queued.
RtrbPeek(q) ==
    IF q # <<>> THEN [ok |-> TRUE, val |-> Head(q)]
                ELSE [ok |-> FALSE, val |-> 0]

--------------------------------------------------------------------------
\* RingBuffer::new(capacity): hands `capacity` to rtrb unchanged.
RingBufferNewOneMore(c) == RtrbNew(c + 1)
RingBufferNew(c) == RtrbNew(c)

RingInit ==
    /\ reqcap \in 0..MaxCap
    /\ capacity = RingBufferNew(reqcap).capacity
    /\ queue = RingBufferNew(reqcap).queue
    /\ wpc = "idle" /\ wcaller = "user"
    /\ wall = <<>> /\ wremaining = <<>> /\ wslice = <<>>
    /\ wi = 1 /\ wcount = 0
    /\ wret = NoRet
    /\ rpc = "idle"
    /\ rdst = <<>> /\ ri = 1 /\ rcount = 0 /\ rn = 0
    /\ rret = NoRet
    /\ accepted = <<>> /\ removed = <<>> /\ delivered = <<>>
    /\ wstart = NoSnap
    /\ rstart = NoSnap

--------------------------------------------------------------------------
\* RingBufferWriter

\* push: .map_err(|_| AudioEngineError::RingBufferFull { count: 1 })
PushErrorWrong == "RingBufferEmpty"
PushError == "RingBufferFull"

\* push(value): one rtrb push, its error mapped by PushError.
Push ==
    /\ wpc = "idle"
    /\ Len(accepted) + 1 <= MaxElems
    /\ LET v == Fresh(1)[1]
           r == RtrbPush(queue, capacity, v)
       IN /\ queue' = r.q
          /\ wret' = WRet("push", IF r.ok THEN "none" ELSE PushError, v)
          /\ accepted' = IF r.ok THEN Append(accepted, v) ELSE accepted
    /\ UNCHANGED outsideRing
    /\ UNCHANGED <<reqcap, capacity, wpc, wlocals, wstart, readerSide>>

\* The frame of push_slice(slice) on entry: count = 0, iterator at the start.
PushSliceEnter(s, caller) ==
    /\ wpc' = "push_slice"
    /\ wcaller' = caller
    /\ wslice' = s
    /\ wi' = 1
    /\ wcount' = 0

\* A user's call of push_slice with a slice of n elements.
PushSliceStart ==
    /\ wpc = "idle"
    /\ \E n \in 0..MaxLen :
        /\ Len(accepted) + n <= MaxElems
        /\ PushSliceEnter(Fresh(n), "user")
    /\ wstart' = Snap
    /\ wret' = NoRet
    /\ UNCHANGED outsideRing
    /\ UNCHANGED <<reqcap, capacity, queue, wall, wremaining, accepted,
                   readerSide>>

\* push_all: `remaining = &remaining[pushed..]`
RemainingAfterSkipsOne(rem, pushed) == SubSeq(rem, pushed + 2, Len(rem))
RemainingAfter(rem, pushed) == SubSeq(rem, pushed + 1, Len(rem))

\* push_all after push_slice returned `pushed`: `if pushed == 0` it spins
\* (std::hint::spin_loop()) and calls push_slice again with the same
\* remaining, there is no other way out of the loop; otherwise it advances.
RemainingOrGiveUp(rem, pushed) ==
    IF pushed = 0 THEN <<>> ELSE RemainingAfter(rem, pushed)
RemainingOrSpin(rem, pushed) ==
    IF pushed = 0 THEN rem ELSE RemainingAfter(rem, pushed)

\* push_slice returns `count` to its caller and its frame is gone.  Returning
\* to push_all is part of the same step: pushed == 0 spins, otherwise
\* remaining = &remaining[pushed..].
PushSliceReturn(k) ==
    /\ wslice' = <<>> /\ wi' = 1 /\ wcount' = 0 /\ wcaller' = "user"
    /\ IF wcaller = "user"
       THEN /\ wpc' = "idle"
            /\ wret' = WRet("push_slice", "none", k)
            /\ wstart' = NoSnap
            /\ UNCHANGED wremaining
       ELSE /\ wpc' = "push_all"
            /\ wremaining' = RemainingOrSpin(wremaining, k)
            /\ UNCHANGED <<wret, wstart>>

\* `for &item in slice`: the item at iterator position i, front to back.
SliceItemReversed(s, i) == s[Len(s) + 1 - i]
SliceItem(s, i) == s[i]

\* The loop with `continue` in the place of `break`: a failed push goes on
\* with the next item.
PushSliceStepContinue ==
    /\ wpc = "push_slice"
    /\ IF wi > Len(wslice)
       THEN /\ PushSliceReturn(wcount)
            /\ UNCHANGED <<queue, accepted>>
       ELSE LET r == RtrbPush(queue, capacity, SliceItem(wslice, wi))
            IN /\ queue' = r.q
               /\ wcount' = IF r.ok THEN wcount + 1 ELSE wcount
               /\ wi' = wi + 1
               /\ accepted' = IF r.ok
                               THEN Append(accepted, wslice[wcount + 1])
                               ELSE accepted
               /\ UNCHANGED <<wpc, wcaller, wslice, wret, wremaining, wstart>>
    /\ UNCHANGED outsideRing
    /\ UNCHANGED <<reqcap, capacity, wall, readerSide>>

\* One turn of `for &item in slice`: the iterator is exhausted and the call
\* returns, or item is pushed; a failed push breaks out of the loop.
PushSliceStep ==
    /\ wpc = "push_slice"
    /\ IF wi > Len(wslice)
       THEN /\ PushSliceReturn(wcount)
            /\ UNCHANGED <<queue, accepted>>
       ELSE LET r == RtrbPush(queue, capacity, SliceItem(wslice, wi))
            IN IF r.ok
               THEN /\ queue' = r.q
                    /\ wcount' = wcount + 1
                    /\ wi' = wi + 1
                    \* the interface reports the leading `count` elements
                    /\ accepted' = Append(accepted, wslice[wcount + 1])
                    /\ UNCHANGED <<wpc, wcaller, wslice, wret, wremaining,
                                   wstart>>
               ELSE /\ PushSliceReturn(wcount)
                    /\ UNCHANGED <<queue, accepted>>
    /\ UNCHANGED outsideRing
    /\ UNCHANGED <<reqcap, capacity, wall, readerSide>>

\* A call of push_all with a slice of n elements: remaining = slice.
PushAllStart ==
    /\ wpc = "idle"
    /\ \E n \in 0..MaxLen :
        /\ Len(accepted) + n <= MaxElems
        /\ wall' = Fresh(n)
        /\ wremaining' = Fresh(n)
    /\ wpc' = "push_all"
    /\ wstart' = Snap
    /\ wret' = NoRet
    /\ UNCHANGED outsideRing
    /\ UNCHANGED <<reqcap, capacity, queue, wcaller, wslice, wi, wcount,
                   accepted, readerSide>>

\* `while !remaining.is_empty()`: calls push_slice(remaining), or returns Ok.
PushAllLoop ==
    /\ wpc = "push_all"
    /\ IF wremaining = <<>>
       THEN /\ wpc' = "idle"
            /\ wret' = WRet("push_all", "none", Len(wall))
            /\ wall' = <<>>
            /\ wstart' = NoSnap
            /\ UNCHANGED <<wcaller, wslice, wi, wcount>>
       ELSE /\ PushSliceEnter(wremaining, "push_all")
            /\ UNCHANGED <<wret, wall, wstart>>
    /\ UNCHANGED outsideRing
    /\ UNCHANGED <<reqcap, capacity, queue, wremaining, accepted, readerSide>>

\* A drop that throws away what is still queued.
WriterDropClears ==
    /\ wpc = "idle"
    /\ wpc' = "dropped"
    /\ wret' = NoRet
    /\ wstart' = Snap
    /\ queue' = <<>>
    /\ UNCHANGED outsideRing
    /\ UNCHANGED <<reqcap, capacity, wlocals, accepted, readerSide>>

\* The writer is dropped (it is owned, so no call of it is in progress); the
\* queue stays as it is for the reader.
WriterDrop ==
    /\ wpc = "idle"
    /\ wpc' = "dropped"
    /\ wret' = NoRet
    /\ wstart' = Snap
    /\ UNCHANGED outsideRing
    /\ UNCHANGED <<reqcap, capacity, queue, wlocals, accepted, readerSide>>

--------------------------------------------------------------------------
\* RingBufferReader

\* AudioEngineError::ChannelRecvFailed, the crate's error for a peer that
\* is gone; ring.rs never constructs it.
DisconnectionError == "ChannelRecvFailed"

\* pop: .map_err(|_| AudioEngineError::RingBufferEmpty { count: 1 })
PopErrorDisconnected == DisconnectionError
PopError == "RingBufferEmpty"

\* pop(): one rtrb pop, its error mapped by PopError.
Pop ==
    /\ rpc = "idle"
    /\ LET r == RtrbPop(queue)
       IN /\ queue' = r.q
          /\ rret' = RRet("pop", IF r.ok THEN "none" ELSE PopError,
                          r.val)
          /\ removed' = IF r.ok
                        THEN Append(removed, [val |-> r.val, how |-> "pop"])
                        ELSE removed
          /\ delivered' = IF r.ok THEN Append(delivered, r.val) ELSE delivered
    /\ rdst' = <<>>
    /\ UNCHANGED outsideRing
    /\ UNCHANGED <<reqcap, capacity, rpc, ri, rcount, rn, rstart, writerSide>>

\* A call of pop_slice with a destination of length n.
PopSliceStart ==
    /\ rpc = "idle"
    /\ \E n \in 0..MaxLen : rdst' = DstInit(n)
    /\ rpc' = "pop_slice"
    /\ ri' = 1
    /\ rcount' = 0
    /\ rstart' = Snap
    /\ rret' = NoRet
    /\ UNCHANGED outsideRing
    /\ UNCHANGED <<reqcap, capacity, queue, rn, removed, delivered,
                   writerSide>>

\* pop_slice returns `count`; the destination dst stays with the caller, who
\* takes its first `count` entries as the elements read.
PopSliceReturn(k, dst) ==
    /\ rpc' = "idle"
    /\ rret' = RRet("pop_slice", "none", k)
    /\ rdst' = dst
    /\ delivered' = delivered \o SubSeq(dst, 1, k)
    /\ ri' = 1 /\ rcount' = 0
    /\ rstart' = NoSnap
    /\ UNCHANGED <<queue, removed>>

\* `*item = value`: the popped value goes to the entry under the iterator.
StoreItem(dst, i, v) == [dst EXCEPT ![i] = v]

\* `else { break; }`: a failed pop leaves the destination from position i on
\* as it is.
PopSliceBreakZeroFill(dst, i) ==
    [j \in 1..Len(dst) |-> IF j >= i THEN 0 ELSE dst[j]]
PopSliceBreak(dst, i) == dst

\* One turn of `for item in slice.iter_mut()`: the iterator is exhausted and
\* the call returns, or the popped value is stored in *item; a failed pop
\* breaks out of the loop.
PopSliceStep ==
    /\ rpc = "pop_slice"
    /\ IF ri > Len(rdst)
       THEN PopSliceReturn(rcount, rdst)
       ELSE LET r == RtrbPop(queue)
            IN IF r.ok
               THEN /\ queue' = r.q
                    /\ rdst' = StoreItem(rdst, ri, r.val)
                    /\ rcount' = rcount + 1
                    /\ ri' = ri + 1
                    /\ removed' = Append(removed,
                                         [val |-> r.val, how |-> "pop"])
                    /\ UNCHANGED <<rpc, rret, delivered, rstart>>
               ELSE PopSliceReturn(rcount, PopSliceBreak(rdst, ri))
    /\ UNCHANGED outsideRing
    /\ UNCHANGED <<reqcap, capacity, rn, writerSide>>

\* peek written with pop: the element is handed out and removed.
PeekRemoves ==
    /\ rpc = "idle"
    /\ LET r == RtrbPop(queue)
       IN /\ rret' = RRet("peek", IF r.ok THEN "Some" ELSE "None", r.val)
          /\ queue' = r.q
          /\ removed' = IF r.ok
                        THEN Append(removed, [val |-> r.val, how |-> "pop"])
                        ELSE removed
    /\ rdst' = <<>>
    /\ UNCHANGED outsideRing
    /\ UNCHANGED <<reqcap, capacity, rpc, ri, rcount, rn, delivered, rstart,
                   writerSide>>

\* peek(): the oldest element by reference, None when the queue is empty.
Peek ==
    /\ rpc = "idle"
    /\ LET r == RtrbPeek(queue)
       IN rret' = RRet("peek", IF r.ok THEN "Some" ELSE "None", r.val)
    /\ rdst' = <<>>
    /\ UNCHANGED outsideRing
    /\ UNCHANGED <<reqcap, capacity, queue, rpc, ri, rcount, rn, rhist,
                   writerSide>>

\* A call of discard(count).
DiscardStart ==
    /\ rpc = "idle"
    /\ \E n \in 0..MaxLen : rn' = n
    /\ rpc' = "discard"
    /\ ri' = 1
    /\ rcount' = 0
    /\ rstart' = Snap
    /\ rret' = NoRet
    /\ rdst' = <<>>
    /\ UNCHANGED outsideRing
    /\ UNCHANGED <<reqcap, capacity, queue, removed, delivered, writerSide>>

\* discard returns `discarded`.
DiscardReturn(k) ==
    /\ rpc' = "idle"
    /\ rret' = RRet("discard", "none", k)
    /\ ri' = 1 /\ rcount' = 0 /\ rn' = 0
    /\ rstart' = NoSnap
    /\ UNCHANGED <<queue, removed>>

\* `for _ in 0..count`: the number of turns the range allows.
DiscardRangeInclusive(n) == n + 1
DiscardRange(n) == n

\* One turn of `for _ in 0..count`: the range is exhausted and the call
\* returns, or one element is popped and dropped; a failed pop breaks.
DiscardStep ==
    /\ rpc = "discard"
    /\ IF ri > DiscardRange(rn)
       THEN DiscardReturn(rcount)
       ELSE LET r == RtrbPop(queue)
            IN IF r.ok
               THEN /\ queue' = r.q
                    /\ rcount' = rcount + 1
                    /\ ri' = ri + 1
                    /\ removed' = Append(removed,
                                         [val |-> r.val, how |-> "discard"])
                    /\ UNCHANGED <<rpc, rret, rn, rstart>>
               ELSE DiscardReturn(rcount)
    /\ UNCHANGED outsideRing
    /\ UNCHANGED <<reqcap, capacity, rdst, delivered, writerSide>>

\* The reader is dropped.
ReaderDrop ==
    /\ rpc = "idle"
    /\ rpc' = "dropped"
    /\ rret' = NoRet
    /\ rdst' = <<>>
    /\ rstart' = Snap
    /\ UNCHANGED outsideRing
    /\ UNCHANGED <<reqcap, capacity, queue, ri, rcount, rn, removed, delivered,
                   writerSide>>

--------------------------------------------------------------------------
\* slots(): both handles forward to rtrb.

\* rtrb::Producer::slots: the number of free slots, read from the queue as
\* it is at the call.
RtrbProducerSlots(q, cap) == cap - Len(q)

\* rtrb::Consumer::slots: the number of queued elements.
RtrbConsumerSlots(q) == Len(q)

\* RingBufferWriter::slots(): `self.inner.slots()` on the Producer.
WriterSlotsOfConsumer(q, cap) == RtrbConsumerSlots(q)
WriterSlotsValue(q, cap) == RtrbProducerSlots(q, cap)

\* RingBufferReader::slots(): `self.inner.slots()` on the Consumer.
ReaderSlotsValue(q) == RtrbConsumerSlots(q)

\* A call of RingBufferWriter::slots().
WriterSlots ==
    /\ wpc = "idle"
    /\ wret' = WRet("slots", "none", WriterSlotsValue(queue, capacity))
    /\ UNCHANGED outsideRing
    /\ UNCHANGED <<reqcap, capacity, queue, wpc, wlocals, whist, readerSide>>

\* A call of RingBufferReader::slots().
ReaderSlots ==
    /\ rpc = "idle"
    /\ rret' = RRet("slots", "none", ReaderSlotsValue(queue))
    /\ rdst' = <<>>
    /\ UNCHANGED outsideRing
    /\ UNCHANGED <<reqcap, capacity, queue, rpc, ri, rcount, rn, rhist,
                   writerSide>>

--------------------------------------------------------------------------
\* Part 2: channel/mod.rs

Senders == 1..MaxSenders

\* A message: the sender handle it came through and its number among that
\* handle's messages.
NoMsg == [from |-> 0, seq |-> 0]

CountFrom(s, q) == Cardinality({i \in 1..Len(q) : q[i].from = s})

\* The message handle s sends next: its messages are numbered in the order
\* the channel took them (a message turned away is offered again).
ChanFresh(s) ==
    [from |-> s, seq |-> CountFrom(s, chremoved \o chq \o chsending) + 1]

\* The value a call returned: the operation, its result and its message(s).
SRet(op, val, m) == [op |-> op, val |-> val, msg |-> m]
NoSRet == SRet("none", "none", NoMsg)
RxRet(op, val, ms) == [op |-> op, val |-> val, msgs |-> ms]
NoRxRet == RxRet("none", "none", <<>>)

\* process_all: the queue and the number of messages passed on so far, as
\* they were when the call began.
NoRxSnap == [q |-> <<>>, rec |-> 0]

\* flume, the external channel, by its contract.

\* Sender handles alive (flume's sender_count).
SenderCount == Cardinality({s \in Senders : spc[s] \in {"idle", "send"}})

\* flume's `disconnected` flag: set when the last sender handle or the
\* receiver is dropped.
FlumeDisconnected == rxpc = "dropped" \/ SenderCount = 0

\* A blocked receiver whose slot is still empty.
ReceiverWaiting == rxpc \in {"recv", "recv_timeout"} /\ chslot = <<>>

\* flume's pull_pending: messages of waiting senders move into the queue
\* while it holds fewer than cap + extra.
PullPending(q, sending, cap, extra) ==
    LET room == cap + extra - Len(q)
        n == IF room <= 0 THEN 0 ELSE Min(room, Len(sending))
    IN [q |-> q \o SubSeq(sending, 1, n),
        sending |-> SubSeq(sending, n + 1, Len(sending))]

\* flume::Sender::try_send(m): Disconnected, a hand-over to the blocked
\* receiver, a push at the tail of the queue, or Full.
FlumeTrySend(m) ==
    IF FlumeDisconnected
    THEN [res |-> "Disconnected", q |-> chq, slot |-> chslot,
          rem |-> chremoved]
    ELSE IF ReceiverWaiting
    THEN [res |-> "Ok", q |-> chq, slot |-> <<m>>,
          rem |-> Append(chremoved, m)]
    ELSE IF Len(chq) < chcap
    THEN [res |-> "Ok", q |-> Append(chq, m), slot |-> chslot,
          rem |-> chremoved]
    ELSE [res |-> "Full", q |-> chq, slot |-> chslot, rem |-> chremoved]

\* flume::Receiver::try_recv(): pulls one waiting sender beyond the capacity,
\* then pops the head; Empty or Disconnected when there is none.
FlumeTryRecv ==
    LET p == PullPending(chq, chsending, chcap, 1)
    IN IF p.q # <<>>
       THEN [res |-> "Ok", msg |-> Head(p.q), q |-> Tail(p.q),
             sending |-> p.sending]
       ELSE [res |-> IF FlumeDisconnected THEN "Disconnected" ELSE "Empty",
             msg |-> NoMsg, q |-> p.q, sending |-> p.sending]

\* control_channel(capacity) / feedback_channel(capacity):
\* flume::bounded(capacity), one sender handle and the receiver.
ChannelNewOneMore(kind, c) ==
    /\ chkind = kind
    /\ chreq = c
    /\ chcap = c + 1
    /\ chq = <<>> /\ chsending = <<>> /\ chslot = <<>>
    /\ spc = [s \in Senders |-> IF s = 1 THEN "idle" ELSE "absent"]
    /\ sret = [s \in Senders |-> NoSRet]
    /\ rxpc = "idle"
    /\ rxret = NoRxRet
    /\ chaccepted = {} /\ chremoved = <<>> /\ chreceived = <<>>
    /\ rxstart = NoRxSnap
    /\ sstart = [s \in Senders |-> 0]

ChannelNew(kind, c) ==
    /\ chkind = kind
    /\ chreq = c
    /\ chcap = c
    /\ chq = <<>> /\ chsending = <<>> /\ chslot = <<>>
    /\ spc = [s \in Senders |-> IF s = 1 THEN "idle" ELSE "absent"]
    /\ sret = [s \in Senders |-> NoSRet]
    /\ rxpc = "idle"
    /\ rxret = NoRxRet
    /\ chaccepted = {} /\ chremoved = <<>> /\ chreceived = <<>>
    /\ rxstart = NoRxSnap
    /\ sstart = [s \in Senders |-> 0]

ChanInit ==
    \E kind \in {"control", "feedback"}, c \in 0..MaxChanCap :
        ChannelNew(kind, c)

\* No channel in use.
ChanParked == ChannelNew("control", 0)

\* No ring buffer in use.
RingParked == RingInit /\ reqcap = 0

--------------------------------------------------------------------------
\* ControlSender and RealtimeSender

\* ControlSender::try_send: the error of flume's try_send, mapped.
TrySendErrorSwapped(res) ==
    CASE res = "Ok" -> "none"
      [] res = "Full" -> "ChannelSendFailed"
      [] res = "Disconnected" -> "RingBufferFull"
TrySendError(res) ==
    CASE res = "Ok" -> "none"
      [] res = "Full" -> "RingBufferFull"
      [] res = "Disconnected" -> "ChannelSendFailed"

\* ControlSender::try_send(msg) through handle s.
ControlTrySend(s) ==
    /\ chkind = "control"
    /\ spc[s] = "idle"
    /\ Len(chremoved) + Len(chq) + Len(chsending) < MaxMsgs
    /\ LET m == ChanFresh(s)
           r == FlumeTrySend(m)
       IN /\ chq' = r.q
          /\ chslot' = r.slot
          /\ chremoved' = r.rem
          /\ sret' = [sret EXCEPT ![s] =
                        SRet("try_send", TrySendError(r.res), m)]
          /\ chaccepted' = IF r.res = "Ok" THEN chaccepted \cup {m}
                           ELSE chaccepted
    /\ UNCHANGED <<outsideChan, sstart>>
    /\ UNCHANGED <<chconf, chsending, spc, rxpc, rxret, chreceived,
                   rxstart>>

\* RealtimeSender::try_send(msg) through handle s: `.is_ok()`.
TrySendIsOkAlways(res) == "true"
TrySendIsOk(res) == IF res = "Ok" THEN "true" ELSE "false"

RealtimeTrySend(s) ==
    /\ chkind = "feedback"
    /\ spc[s] = "idle"
    /\ Len(chremoved) + Len(chq) + Len(chsending) < MaxMsgs
    /\ LET m == ChanFresh(s)
           r == FlumeTrySend(m)
       IN /\ chq' = r.q
          /\ chslot' = r.slot
          /\ chremoved' = r.rem
          /\ sret' = [sret EXCEPT ![s] =
                        SRet("try_send", TrySendIsOk(r.res), m)]
          /\ chaccepted' = IF TrySendIsOk(r.res) = "true"
                           THEN chaccepted \cup {m} ELSE chaccepted
    /\ UNCHANGED <<outsideChan, sstart>>
    /\ UNCHANGED <<chconf, chsending, spc, rxpc, rxret, chreceived,
                   rxstart>>

\* ControlSender::send: `.map_err(|_| AudioEngineError::ChannelSendFailed)`
SendError == "ChannelSendFailed"

\* ControlSender::send written with try_send: a full channel fails the call.
ControlSendFailsFast(s) ==
    /\ chkind = "control"
    /\ spc[s] = "idle"
    /\ Len(chremoved) + Len(chq) + Len(chsending) < MaxMsgs
    /\ LET m == ChanFresh(s)
           r == FlumeTrySend(m)
       IN /\ chq' = r.q
          /\ chslot' = r.slot
          /\ chremoved' = r.rem
          /\ sret' = [sret EXCEPT ![s] =
                        SRet("send", IF r.res = "Ok" THEN "none"
                                     ELSE SendError, m)]
          /\ chaccepted' = IF r.res = "Ok" THEN chaccepted \cup {m}
                           ELSE chaccepted
    /\ UNCHANGED <<outsideChan, sstart>>
    /\ UNCHANGED <<chconf, chsending, spc, rxpc, rxret, chreceived,
                   rxstart>>

\* ControlSender::send(msg) through handle s: flume's send does what
\* try_send does, except that on a full channel it parks the message with
\* the waiting senders and blocks.
ControlSend(s) ==
    /\ chkind = "control"
    /\ spc[s] = "idle"
    /\ Len(chremoved) + Len(chq) + Len(chsending) < MaxMsgs
    /\ LET m == ChanFresh(s)
           r == FlumeTrySend(m)
       IN IF r.res = "Full"
          THEN /\ chsending' = Append(chsending, m)
               /\ spc' = [spc EXCEPT ![s] = "send"]
               /\ sret' = [sret EXCEPT ![s] = SRet("send", "blocked", m)]
               /\ sstart' = [sstart EXCEPT ![s] = Len(chremoved)]
               /\ UNCHANGED <<chq, chslot, chremoved, chaccepted>>
          ELSE /\ chq' = r.q
               /\ chslot' = r.slot
               /\ chremoved' = r.rem
               /\ sret' = [sret EXCEPT ![s] =
                             SRet("send", IF r.res = "Ok" THEN "none"
                                          ELSE SendError, m)]
               /\ chaccepted' = IF r.res = "Ok" THEN chaccepted \cup {m}
                                ELSE chaccepted
               /\ UNCHANGED <<chsending, spc, sstart>>
    /\ UNCHANGED outsideChan
    /\ UNCHANGED <<chconf, rxpc, rxret, chreceived, rxstart>>

\* The message of handle s is still with the waiting senders.
Parked(s) == \E i \in 1..Len(chsending) : chsending[i].from = s

Unpark(s) ==
    SelectSeq(chsending, LAMBDA m : m.from # s)

\* A blocked send of handle s returns: Ok once its message was moved into
\* the queue, the error once the receiver is gone and the message is still
\* parked (the sender takes it back).
ControlSendReturn(s) ==
    /\ spc[s] = "send"
    /\ \/ /\ ~Parked(s)
          /\ sret' = [sret EXCEPT ![s] = SRet("send", "none", sret[s].msg)]
          /\ chaccepted' = chaccepted \cup {sret[s].msg}
          /\ UNCHANGED chsending
       \/ /\ Parked(s)
          /\ rxpc = "dropped"
          /\ sret' = [sret EXCEPT ![s] = SRet("send", SendError, sret[s].msg)]
          /\ chsending' = Unpark(s)
          /\ UNCHANGED chaccepted
    /\ spc' = [spc EXCEPT ![s] = "idle"]
    /\ sstart' = [sstart EXCEPT ![s] = 0]
    /\ UNCHANGED outsideChan
    /\ UNCHANGED <<chconf, chq, chslot, rxpc, rxret, chremoved,
                   chreceived, rxstart>>

\* impl Clone for ControlSender / RealtimeSender: handle s makes handle t.
SenderClone(s, t) ==
    /\ spc[s] = "idle"
    /\ spc[t] = "absent"
    /\ spc' = [spc EXCEPT ![t] = "idle"]
    /\ UNCHANGED <<outsideChan, sstart>>
    /\ UNCHANGED <<chconf, chq, chsending, chslot, sret, rxpc, rxret,
                   chaccepted, chremoved, chreceived, rxstart>>

\* Handle s is dropped; the drop of the last one disconnects the channel.
SenderDrop(s) ==
    /\ spc[s] = "idle"
    /\ spc' = [spc EXCEPT ![s] = "dropped"]
    /\ sret' = [sret EXCEPT ![s] = NoSRet]
    /\ UNCHANGED <<outsideChan, sstart>>
    /\ UNCHANGED <<chconf, chq, chsending, chslot, rxpc, rxret,
                   chaccepted, chremoved, chreceived, rxstart>>

--------------------------------------------------------------------------
\* RealtimeReceiver and ControlReceiver

\* try_recv(): `self.inner.try_recv().ok()`, on either receiver.
TryRecv ==
    /\ rxpc = "idle"
    /\ LET r == FlumeTryRecv
       IN /\ chq' = r.q
          /\ chsending' = r.sending
          /\ rxret' = IF r.res = "Ok" THEN RxRet("try_recv", "Some", <<r.msg>>)
                      ELSE RxRet("try_recv", "None", <<>>)
          /\ chremoved' = IF r.res = "Ok" THEN Append(chremoved, r.msg)
                          ELSE chremoved
          /\ chreceived' = IF r.res = "Ok" THEN Append(chreceived, r.msg)
                           ELSE chreceived
    /\ UNCHANGED <<outsideChan, sstart>>
    /\ UNCHANGED <<chconf, chslot, spc, sret, rxpc, chaccepted,
                   rxstart>>

\* A call of RealtimeReceiver::process_all(f).
ProcessAllStart ==
    /\ chkind = "control"
    /\ rxpc = "idle"
    /\ rxpc' = "process_all"
    /\ rxret' = NoRxRet
    /\ rxstart' = [q |-> chq, rec |-> Len(chreceived)]
    /\ UNCHANGED <<outsideChan, sstart>>
    /\ UNCHANGED <<chconf, chq, chsending, chslot, spc, sret,
                   chaccepted, chremoved, chreceived>>

\* `while let Some(msg) = self.try_recv()`: what ends the loop.
ProcessAllStopsAfterOne(res) == TRUE
ProcessAllStops(res) == res # "Ok"

\* One turn of `while let Some(msg) = self.try_recv() { f(msg); }`: the
\* message goes to the callback, or the call returns.
ProcessAllStep ==
    /\ rxpc = "process_all"
    /\ LET r == FlumeTryRecv
       IN /\ chq' = r.q
          /\ chsending' = r.sending
          /\ chremoved' = IF r.res = "Ok" THEN Append(chremoved, r.msg)
                          ELSE chremoved
          /\ chreceived' = IF r.res = "Ok" THEN Append(chreceived, r.msg)
                           ELSE chreceived
          /\ IF ProcessAllStops(r.res)
             THEN /\ rxpc' = "idle"
                  /\ rxret' = RxRet("process_all", "done", <<>>)
                  /\ rxstart' = NoRxSnap
             ELSE UNCHANGED <<rxpc, rxret, rxstart>>
    /\ UNCHANGED <<outsideChan, sstart>>
    /\ UNCHANGED <<chconf, chslot, spc, sret, chaccepted>>

\* RealtimeReceiver::is_disconnected(): flume's flag.
IsDisconnectedValue == IF FlumeDisconnected THEN "true" ELSE "false"

IsDisconnected ==
    /\ chkind = "control"
    /\ rxpc = "idle"
    /\ rxret' = RxRet("is_disconnected", IsDisconnectedValue, <<>>)
    /\ UNCHANGED <<outsideChan, sstart>>
    /\ UNCHANGED <<chconf, chq, chsending, chslot, spc, sret, rxpc,
                   chaccepted, chremoved, chreceived, rxstart>>

\* recv / recv_timeout: `.map_err(|_| AudioEngineError::ChannelRecvFailed)`
RecvErrorEmpty == "RingBufferEmpty"
RecvError == "ChannelRecvFailed"

\* A call of ControlReceiver::recv() or recv_timeout(t): a queued message is
\* returned at once, a disconnected empty channel gives the error, otherwise
\* the call blocks.
Recv(op) ==
    /\ chkind = "feedback"
    /\ rxpc = "idle"
    /\ LET r == FlumeTryRecv
       IN /\ chq' = r.q
          /\ chsending' = r.sending
          /\ chremoved' = IF r.res = "Ok" THEN Append(chremoved, r.msg)
                          ELSE chremoved
          /\ chreceived' = IF r.res = "Ok" THEN Append(chreceived, r.msg)
                           ELSE chreceived
          /\ rxpc' = IF r.res = "Empty" THEN op ELSE "idle"
          /\ rxret' = CASE r.res = "Ok" -> RxRet(op, "Ok", <<r.msg>>)
                        [] r.res = "Disconnected" -> RxRet(op, RecvError, <<>>)
                        [] r.res = "Empty" -> NoRxRet
    /\ UNCHANGED <<outsideChan, sstart>>
    /\ UNCHANGED <<chconf, chslot, spc, sret, chaccepted, rxstart>>

\* The blocked recv / recv_timeout returns: with the message a sender put in
\* its slot, with the error once every sender handle is gone, or (recv_timeout
\* only) with the error when the time is up.
RecvReturn ==
    /\ rxpc \in {"recv", "recv_timeout"}
    /\ \/ /\ chslot # <<>>
          /\ rxret' = RxRet(rxpc, "Ok", chslot)
          /\ chreceived' = chreceived \o chslot
       \/ /\ chslot = <<>>
          /\ FlumeDisconnected \/ rxpc = "recv_timeout"
          /\ rxret' = RxRet(rxpc, RecvError, <<>>)
          /\ UNCHANGED chreceived
    /\ chslot' = <<>>
    /\ rxpc' = "idle"
    /\ UNCHANGED <<outsideChan, sstart>>
    /\ UNCHANGED <<chconf, chq, chsending, spc, sret, chaccepted,
                   chremoved, rxstart>>

\* drain(), on either receiver: everything queued, as one vector.
Drain ==
    /\ rxpc = "idle"
    /\ LET p == PullPending(chq, chsending, chcap, 0)
       IN /\ chq' = <<>>
          /\ chsending' = p.sending
          /\ rxret' = RxRet("drain", "none", p.q)
          /\ chremoved' = chremoved \o p.q
          /\ chreceived' = chreceived \o p.q
    /\ UNCHANGED <<outsideChan, sstart>>
    /\ UNCHANGED <<chconf, chslot, spc, sret, rxpc, chaccepted,
                   rxstart>>

\* The receiver is dropped: the channel is disconnected; flume first moves
\* waiting senders' messages into what room the queue has.
ReceiverDrop ==
    /\ rxpc = "idle"
    /\ rxpc' = "dropped"
    /\ rxret' = NoRxRet
    /\ LET p == PullPending(chq, chsending, chcap, 0)
       IN chq' = p.q /\ chsending' = p.sending
    /\ UNCHANGED <<outsideChan, sstart>>
    /\ UNCHANGED <<chconf, chslot, spc, sret, chaccepted, chremoved,
                   chreceived, rxstart>>

--------------------------------------------------------------------------
\* Part 3: buffer/realtime.rs, RealtimeBuffer<T>

\* The element type T: a few values, T::default() among them.
BufDefault == 0
BufVals == 0..MaxVal

\* The slices a caller may hand over: up to one element longer than the
\* largest buffer.
RECURSIVE SeqsUpTo(_)
SeqsUpTo(n) ==
    IF n = 0 THEN {<<>>}
    ELSE LET shorter == SeqsUpTo(n - 1)
         IN shorter \cup {Append(q, v) : q \in {t \in shorter : Len(t) = n - 1},
                                         v \in BufVals}

\* The last call, its numeric argument, its slice argument, and how it
\* ended: "ok", an error, or "panic".
RbRet(op, arg, val) == [op |-> op, arg |-> arg, src |-> <<>>, val |-> val]
RbRetSlice(op, src, val) ==
    [op |-> op, arg |-> Len(src), src |-> src, val |-> val]

\* `self.data.fill(value)`
Filled(data, v) == [i \in 1..Len(data) |-> v]

\* RealtimeBuffer::new(capacity): `vec![T::default(); capacity]`, len 0.
RealtimeBufferNew(c) ==
    /\ rbreq = c
    /\ rbdata = [i \in 1..c |-> BufDefault]
    /\ rblen = 0
    /\ rbret = RbRet("new", c, "ok")

\* RealtimeBuffer::with_value(capacity, value): `vec![value; capacity]`,
\* len = capacity.
WithValue(c, v) ==
    /\ rbreq = c
    /\ rbdata = [i \in 1..c |-> v]
    /\ rblen = c
    /\ rbret = RbRet("with_value", c, "ok")

BufInit ==
    \E c \in 0..MaxBufCap :
        \/ RealtimeBufferNew(c)
        \/ \E v \in BufVals : WithValue(c, v)

\* No RealtimeBuffer in use.
BufParked == RealtimeBufferNew(0)

\* A panic unwinds the calling thread: nothing is called on the buffer after.
BufAlive == rbret.val # "panic"

\* clear(): `self.len = 0`
Clear ==
    /\ BufAlive
    /\ rblen' = 0
    /\ rbret' = RbRet("clear", 0, "ok")
    /\ UNCHANGED <<outsideBuf, rbreq, rbdata>>

\* fill_default(): the whole slice is filled, len = data.len().
FillDefault ==
    /\ BufAlive
    /\ rbdata' = Filled(rbdata, BufDefault)
    /\ rblen' = Len(rbdata)
    /\ rbret' = RbRet("fill_default", 0, "ok")
    /\ UNCHANGED <<outsideBuf, rbreq>>

\* fill(value): the whole slice is filled, len = data.len().
Fill ==
    /\ BufAlive
    /\ \E v \in BufVals :
        /\ rbdata' = Filled(rbdata, v)
        /\ rbret' = RbRet("fill", v, "ok")
    /\ rblen' = Len(rbdata)
    /\ UNCHANGED <<outsideBuf, rbreq>>

\* resize: `self.data[self.len..new_len].fill(T::default())`, the first
\* position (1-based) that is filled when the buffer grows.
ResizeFillFromStart(len) == 1
ResizeFillFrom(len) == len + 1

\* resize(new_len): clamped to data.len(); growing fills the newly exposed
\* positions with the default.
Resize ==
    /\ BufAlive
    /\ \E n \in 0..(MaxBufCap + 1) :
        LET new_len == Min(n, Len(rbdata))
        IN /\ rbdata' = IF new_len > rblen
                        THEN [i \in 1..Len(rbdata) |->
                                IF ResizeFillFrom(rblen) <= i /\ i <= new_len
                                THEN BufDefault ELSE rbdata[i]]
                        ELSE rbdata
           /\ rblen' = new_len
           /\ rbret' = RbRet("resize", n, "ok")
    /\ UNCHANGED <<outsideBuf, rbreq>>

\* copy_from_slice: `if src.len() > self.data.len()`
CopyOverflowsOffByOne(n, cap) == n > cap + 1
CopyOverflows(n, cap) == n > cap

\* copy_from_slice(src): BufferOverflow when src is longer than data;
\* otherwise data[..src.len()] is overwritten and len = src.len().
CopyFromSlice ==
    /\ BufAlive
    /\ \E src \in SeqsUpTo(MaxBufCap + 1) :
        IF CopyOverflows(Len(src), Len(rbdata))
        THEN /\ rbret' = RbRetSlice("copy_from_slice", src, "BufferOverflow")
             /\ UNCHANGED <<rbdata, rblen>>
        ELSE /\ rbdata' = [i \in 1..Len(rbdata) |->
                             IF i <= Len(src) THEN src[i] ELSE rbdata[i]]
             /\ rblen' = Len(src)
             /\ rbret' = RbRetSlice("copy_from_slice", src, "ok")
    /\ UNCHANGED <<outsideBuf, rbreq>>

\* set_len: `assert!(new_len <= self.data.len(), ...)`
SetLenAssertOffByOne(n, cap) == n <= cap + 1
SetLenAssert(n, cap) == n <= cap

\* set_len(new_len): panics when the assertion fails, else `self.len = new_len`.
SetLen ==
    /\ BufAlive
    /\ \E n \in 0..(MaxBufCap + 1) :
        IF SetLenAssert(n, Len(rbdata))
        THEN /\ rblen' = n
             /\ rbret' = RbRet("set_len", n, "ok")
        ELSE /\ rbret' = RbRet("set_len", n, "panic")
             /\ UNCHANGED rblen
    /\ UNCHANGED <<outsideBuf, rbreq, rbdata>>

\* index_mut(index) and a write through it: `&mut self.data[..self.len][index]`
\* panics when index >= len.
IndexMut ==
    /\ BufAlive
    /\ \E i \in 0..MaxBufCap, v \in BufVals :
        IF i < rblen
        THEN /\ rbdata' = [rbdata EXCEPT ![i + 1] = v]
             /\ rbret' = RbRet("index_mut", i, "ok")
        ELSE /\ rbret' = RbRet("index_mut", i, "panic")
             /\ UNCHANGED rbdata
    /\ UNCHANGED <<outsideBuf, rbreq, rblen>>

BufNext ==
    \/ Clear \/ FillDefault \/ Fill \/ Resize \/ CopyFromSlice \/ SetLen
    \/ IndexMut

--------------------------------------------------------------------------
\* Part 4: buffer/realtime.rs, AudioBuffer

\* usize, at a width of UsizeBits bits.
UsizeBits == 3
UsizeMod == 2 ^ UsizeBits
Usize == 0..(UsizeMod - 1)

\* ChannelCount::count_usize(): Mono, Stereo, Quad.  (Surround51 and
\* Surround71 are built and indexed by the same code.)
ChannelCounts == {1, 2, 4}

\* Sample::SILENCE
Silence == BufDefault

\* Option<Sample>: None, or Some(sample).
NoSample == -1

\* The last call on the AudioBuffer, its arguments (for get_sample, `sample`
\* is the sample returned) and its outcome: "ok", "some", "none", "panic".
AbRet(op, frame, channel, sample, val) ==
    [op |-> op, frame |-> frame, channel |-> channel, sample |-> sample,
     val |-> val]

\* `frames * channels.count_usize()` and `frame * count + channel` in a
\* build without overflow checks.
WrappingMul(a, b) == (a * b) % UsizeMod
WrappingAdd(a, b) == (a + b) % UsizeMod

\* AudioBuffer::new(frames, channels).  When the product does not fit a
\* usize, a build with overflow checks panics and a build without them
\* allocates the wrapped number of samples.
AudioBufferNew(frames, channels) ==
    /\ abframes = frames
    /\ abchannels = channels
    /\ \/ /\ frames * channels >= UsizeMod
          /\ abdata = <<>>
          /\ abret = AbRet("new", frames, channels, NoSample, "panic")
       \/ LET total_samples == WrappingMul(frames, channels)
          IN /\ total_samples <= MaxSamples
             /\ abdata = [i \in 1..total_samples |-> Silence]
             /\ abret = AbRet("new", frames, channels, NoSample, "ok")

AudioInit ==
    \E frames \in Usize, channels \in ChannelCounts :
        AudioBufferNew(frames, channels)

\* No AudioBuffer in use.
AudioParked == AudioBufferNew(0, 1) /\ abret.val = "ok"

\* A panic in the constructor: there is no buffer to call anything on.
AudioAlive == abret.val # "panic"

\* RealtimeBuffer::get / get_mut on the inner buffer, whose len is its
\* capacity: the position (1-based) of the element, 0 for None.
DataGet(data, index) == IF index < Len(data) THEN index + 1 ELSE 0

\* The index get_sample and set_sample compute once the bounds check has
\* passed.
SampleIndex(frame, channel) ==
    WrappingAdd(WrappingMul(frame, abchannels), channel)

InBounds(frame, channel) == frame < abframes /\ channel < abchannels

\* get_sample(frame, channel) as a value.
GetSampleValue(frame, channel) ==
    IF InBounds(frame, channel)
    THEN LET at == DataGet(abdata, SampleIndex(frame, channel))
         IN IF at = 0 THEN NoSample ELSE abdata[at]
    ELSE NoSample

\* get_sample(frame, channel)
GetSample ==
    /\ AudioAlive
    /\ \E frame \in Usize, channel \in 0..4 :
        LET got == GetSampleValue(frame, channel)
        IN abret' = AbRet("get_sample", frame, channel, got,
                          IF got = NoSample THEN "none" ELSE "some")
    /\ UNCHANGED <<outsideAudio, abframes, abchannels, abdata>>

\* set_sample(frame, channel, sample)
SetSample ==
    /\ AudioAlive
    /\ \E frame \in Usize, channel \in 0..4, sample \in BufVals :
        /\ abdata' =
             IF InBounds(frame, channel)
             THEN LET at == DataGet(abdata, SampleIndex(frame, channel))
                  IN IF at = 0 THEN abdata
                     ELSE [abdata EXCEPT ![at] = sample]
             ELSE abdata
        /\ abret' = AbRet("set_sample", frame, channel, sample, "ok")
    /\ UNCHANGED <<outsideAudio, abframes, abchannels>>

AudioNext == GetSample \/ SetSample

--------------------------------------------------------------------------
\* Part 5: dsp/params.rs, SmoothParam

\* f32: a significand of F32Bits bits.
F32Bits == 3

Abs(x) == IF x < 0 THEN -x ELSE x

\* The exponent of the quotient a / d (a, d > 0) in the format: the least j
\* with a / (d * 2^j) < 2^F32Bits.
RECURSIVE F32Exp(_, _)
F32Exp(a, d) == IF a < d * 2 ^ F32Bits THEN 0 ELSE 1 + F32Exp(a, 2 * d)

\* a / d rounded to an integer, ties to even.
RoundHalfEven(a, d) ==
    LET f == a \div d
        r == a % d
    IN IF 2 * r > d THEN f + 1
       ELSE IF 2 * r < d THEN f
       ELSE f + (f % 2)

\* The f32 nearest to num / den (den > 0).
F32Round(num, den) ==
    LET a == Abs(num)
        j == F32Exp(a, den)
        m == RoundHalfEven(a, den * 2 ^ j) * 2 ^ j
    IN IF num < 0 THEN -m ELSE m

\* f32 arithmetic: the exact result, rounded.
F32Add(x, y) == F32Round(x + y, 1)
F32Sub(x, y) == F32Round(x - y, 1)
F32Mul(x, y) == F32Round(x * y, 1)
F32Div(x, y) == F32Round(IF y < 0 THEN -x ELSE x, Abs(y))

\* `samples as f32`
U32AsF32(n) == F32Round(n, 1)

\* The f32 values callers pass: the finite ones up to MaxParam.
ParamVals == {v \in (-MaxParam)..MaxParam : F32Round(v, 1) = v}

\* The sample counts callers pass.
RampLens == 0..MaxRamp

\* A SmoothParam as a value.
SmoothParamOf(c, t, i, r) ==
    [current |-> c, target |-> t, increment |-> i, samples_remaining |-> r]

\* The parameter the variables hold.
Param == SmoothParamOf(current, target, increment, samples_remaining)

\* SmoothParam::new(initial)
SmoothParamNew(initial) == SmoothParamOf(initial, initial, 0, 0)

\* set_target(target, samples)
SetTargetOf(p, t, samples) ==
    IF samples = 0
    THEN SmoothParamOf(t, t, 0, 0)
    ELSE SmoothParamOf(p.current, t,
                       F32Div(F32Sub(t, p.current), U32AsF32(samples)),
                       samples)

\* set_immediate(value)
SetImmediateKeepsTarget(p, value) == SmoothParamOf(value, p.target, 0, 0)
SetImmediateOf(p, value) == SmoothParamOf(value, value, 0, 0)

\* next / advance: `if self.samples_remaining == 0 { self.current =
\* self.target; }`
SnapsNever(remaining) == FALSE
Snaps(remaining) == remaining = 0

\* next(): the parameter after the call (the call returns its `current`).
NextOf(p) ==
    IF p.samples_remaining > 0
    THEN LET c == F32Add(p.current, p.increment)
             r == p.samples_remaining - 1
         IN SmoothParamOf(IF Snaps(r) THEN p.target ELSE c, p.target,
                          p.increment, r)
    ELSE p

\* advance(samples)
AdvanceOf(p, samples) ==
    IF p.samples_remaining > 0
    THEN LET advance == Min(samples, p.samples_remaining)
             c == F32Add(p.current, F32Mul(p.increment, U32AsF32(advance)))
             r == p.samples_remaining - advance
         IN SmoothParamOf(IF Snaps(r) THEN p.target ELSE c, p.target,
                          p.increment, r)
    ELSE p

\* The last call on the parameter: its name, its f32 argument, its u32
\* argument, and what it returned.
SpRet(op, value, samples, val) ==
    [op |-> op, value |-> value, samples |-> samples, val |-> val]

\* No set_target whose ramp is being followed.
NoRamp == [target |-> 0, samples |-> 0, nexts |-> -1]

\* A freshly built parameter.
ParamIs(p) ==
    /\ current = p.current
    /\ target = p.target
    /\ increment = p.increment
    /\ samples_remaining = p.samples_remaining
    /\ spramp = NoRamp

\* The variables hold parameter p after a call.
Becomes(p) ==
    /\ current' = p.current
    /\ target' = p.target
    /\ increment' = p.increment
    /\ samples_remaining' = p.samples_remaining

ParamInit ==
    \E initial \in ParamVals :
        /\ ParamIs(SmoothParamNew(initial))
        /\ spret = SpRet("new", initial, 0, 0)

\* No SmoothParam in use.
ParamParked ==
    /\ ParamIs(SmoothParamNew(0))
    /\ spret = SpRet("new", 0, 0, 0)

SetTarget ==
    /\ \E t \in ParamVals, samples \in RampLens :
        /\ Becomes(SetTargetOf(Param, t, samples))
        /\ spret' = SpRet("set_target", t, samples, 0)
        /\ spramp' = [target |-> t, samples |-> samples, nexts |-> 0]
    /\ UNCHANGED outsideParam

SetImmediate ==
    /\ \E value \in ParamVals :
        /\ Becomes(SetImmediateOf(Param, value))
        /\ spret' = SpRet("set_immediate", value, 0, 0)
    /\ spramp' = NoRamp
    /\ UNCHANGED outsideParam

SmoothNext ==
    /\ Becomes(NextOf(Param))
    /\ spret' = SpRet("next", 0, 0, NextOf(Param).current)
    /\ spramp' = IF spramp.nexts >= 0 /\ spramp.nexts < spramp.samples
                 THEN [spramp EXCEPT !.nexts = @ + 1]
                 ELSE NoRamp
    /\ UNCHANGED outsideParam

Advance ==
    /\ \E samples \in 0..(MaxRamp + 1) :
        /\ Becomes(AdvanceOf(Param, samples))
        /\ spret' = SpRet("advance", 0, samples, 0)
    /\ spramp' = NoRamp
    /\ UNCHANGED outsideParam

ParamNext == SetTarget \/ SetImmediate \/ SmoothNext \/ Advance

--------------------------------------------------------------------------
\* Part 6: dsp/gain.rs, dsp/pan.rs, dsp/filters.rs

\* 1.0 on the scale of linear values.
One == 4

\* The samples a block may hold.
SampleVals == {One}

\* The blocks process is handed: up to MaxBlock samples.
RECURSIVE BlocksUpTo(_)
BlocksUpTo(n) ==
    IF n = 0 THEN {<<>>}
    ELSE LET shorter == BlocksUpTo(n - 1)
         IN shorter \cup {Append(b, v) : b \in {t \in shorter : Len(t) = n - 1},
                                         v \in SampleVals}

Blocks == BlocksUpTo(MaxBlock)

\* SampleRate
SampleRates == {"Hz44100", "Hz48000", "Hz96000", "Hz192000"}

\* samples_for_milliseconds(10): rate * 10 / 1000, on a time scale on which
\* 48 kHz gives 2 samples.
SamplesFor10Ms(rate) ==
    CASE rate = "Hz44100" -> 2
      [] rate = "Hz48000" -> 2
      [] rate = "Hz96000" -> 4
      [] rate = "Hz192000" -> 8

\* f32::clamp
Clamp(x, lo, hi) == IF x < lo THEN lo ELSE IF x > hi THEN hi ELSE x

\* Gain::from_db(db): silence at -80 dB and below, 10^(db/20) of the value
\* clamped to +24 dB above it.  Decibels the model uses: -80, -6, 0, 6.
GainDbVals == {-80, -6, 0, 6}
GainFromDb(db) ==
    IF db <= -80 THEN 0
    ELSE CASE db = -6 -> One \div 2
           [] db = 0 -> One
           [] db = 6 -> 2 * One

\* Pan::right_gain: sin((pan + 1) * pi / 4), for pan = -One .. One.
PanSin == <<0, 1, 2, 2, 3, 3, 4, 4, 4>>
PanRightGain(pan) == PanSin[pan + One + 1]

\* Pan::left_gain: cos((pan + 1) * pi / 4).  At pan = 1.0 the f32 angle is
\* just above pi / 2 and the cosine is negative (-4.4e-8); -1 stands for
\* it.
PanLeftGain(pan) == IF pan = One THEN -1 ELSE PanSin[One - pan + 1]

\* Gain::new(linear): `assert!(linear >= 0.0, ...)`
GainNewPanics(linear) == linear < 0

\* The pan positions callers pass (Pan::new has clamped them).
PanVals == {-One, 0, One}

\* sample.value() * gain
Scaled(sample, gain) == F32Round(sample * gain, One)

\* The effect's SmoothParam of that name.
NoParam == SmoothParamNew(0)

\* The last call on the effect: its name, the channel count and the block
\* it was handed, the block it left, how it ended, and whether process
\* called update_coefficients.
FxRet(op, channels, block, out, val) ==
    [op |-> op, channels |-> channels, block |-> block, out |-> out,
     val |-> val, derived |-> FALSE]

NoBlock == <<>>

\* BiquadState::default() / reset(): the history of one channel.
BiquadStateZero == [x1 |-> 0, x2 |-> 0, y1 |-> 0, y2 |-> 0]

\* `[BiquadState::default(); 8]`
StatesZero == [ch \in 0..7 |-> BiquadStateZero]

\* An effect that is no BiquadFilter has none of its fields.
NoFilter ==
    /\ fxtype = "none"
    /\ fxcoeffs = "none"
    /\ fxdirty = FALSE
    /\ fxstates = StatesZero

\* GainEffect::with_gain(id, gain)
GainEffectNew(gain) ==
    /\ fxkind = "gain"
    /\ fxenabled = TRUE
    /\ fxrate = "Hz48000"
    /\ fxparams = [gain |-> SmoothParamNew(gain)]
    /\ NoFilter
    /\ fxret = FxRet("new", 0, NoBlock, NoBlock, "ok")

\* PanEffect::with_pan(id, pan)
PanEffectNew(pan) ==
    /\ fxkind = "pan"
    /\ fxenabled = TRUE
    /\ fxrate = "Hz48000"
    /\ fxparams = [pan |-> SmoothParamNew(pan)]
    /\ NoFilter
    /\ fxret = FxRet("new", 0, NoBlock, NoBlock, "ok")

\* A panic unwinds the audio thread: nothing is called on the effect after.
FxAlive == fxret.val # "panic"

\* set_enabled(enabled)
SetEnabled ==
    /\ FxAlive
    /\ \E enabled \in BOOLEAN :
        /\ fxenabled' = enabled
        /\ fxret' = FxRet("set_enabled", 0, NoBlock, NoBlock, "ok")
    /\ UNCHANGED <<outsideEffect, fxkind, fxrate, fxparams, fxfilter>>

\* GainEffect::set_gain_db(db)
GainSetGainDb ==
    /\ FxAlive /\ fxkind = "gain"
    /\ \E db \in GainDbVals :
        fxparams' = [fxparams EXCEPT !.gain =
                        SetTargetOf(@, GainFromDb(db), SamplesFor10Ms(fxrate))]
    /\ fxret' = FxRet("set_gain_db", 0, NoBlock, NoBlock, "ok")
    /\ UNCHANGED <<outsideEffect, fxkind, fxenabled, fxrate, fxfilter>>

\* PanEffect::set_pan(pan)
PanSetPan ==
    /\ FxAlive /\ fxkind = "pan"
    /\ \E pan \in PanVals :
        fxparams' = [fxparams EXCEPT !.pan =
                        SetTargetOf(@, pan, SamplesFor10Ms(fxrate))]
    /\ fxret' = FxRet("set_pan", 0, NoBlock, NoBlock, "ok")
    /\ UNCHANGED <<outsideEffect, fxkind, fxenabled, fxrate, fxfilter>>

\* Frequencies, Q and decibels are f32 values counted on scales of their
\* own: 20 Hz and 20 kHz are the marks FreqMin and FreqMax, 0.1 and 20 the
\* marks QMin and QMax, -24 dB and +24 dB the marks GainDbMin and GainDbMax.
FreqMin == 2
FreqMax == 5
QMin == 1
QMax == 4
GainDbMin == -2
GainDbMax == 2

\* BiquadFilter::new: 1000 Hz, Q 0.707, 0 dB.
FreqDefault == 3
QDefault == 2

\* SampleRate::as_hz
AsHz(rate) ==
    CASE rate = "Hz44100" -> 44100
      [] rate = "Hz48000" -> 48000
      [] rate = "Hz96000" -> 96000
      [] rate = "Hz192000" -> 192000

\* update_coefficients: `f32::from(u16::try_from(hz).unwrap_or(48000))`
U16Max == 65535
FsOf(rate) == IF AsHz(rate) <= U16Max THEN AsHz(rate) ELSE 48000

\* `fs * 0.49` on the scale of frequencies: 21609 Hz, 23520 Hz, 47040 Hz
\* and 94080 Hz lie above the 20 kHz mark, in that order.
HalfBand(fs) ==
    CASE fs = 44100 -> 6
      [] fs = 48000 -> 7
      [] fs = 96000 -> 8
      [] fs = 192000 -> 10

\* The values callers pass for a frequency, a Q and a gain in decibels,
\* all outside the range; the constructors are passed the defaults too.
FreqVals == {1, HalfBand(192000)}
QVals == {0}
DbVals == {GainDbMax + 1}

FilterTypes == {"LowPass", "Peak"}

\* The coefficients update_coefficients derives: a function of the filter
\* type, fs, and the frequency, Q and gain it read, which stand for them.
BiquadCoeffsOf(type, fs, freq, q, gain) ==
    [type |-> type, fs |-> fs, freq |-> freq, q |-> q, gain |-> gain]

\* update_coefficients(): the coefficients it stores.
UpdateCoefficients(type, rate, params) ==
    LET fs == FsOf(rate)
    IN BiquadCoeffsOf(type, fs,
                      Clamp(params.frequency.current, FreqMin, HalfBand(fs)),
                      params.q.current, params.gain_db.current)

\* BiquadFilter::with_params(id, filter_type, frequency, q, gain_db)
WithParams(type, frequency, q, gain_db) ==
    LET params == [frequency |-> SmoothParamNew(frequency),
                   q |-> SmoothParamNew(q),
                   gain_db |-> SmoothParamNew(gain_db)]
    IN /\ fxkind = "biquad"
       /\ fxenabled = TRUE
       /\ fxrate = "Hz48000"
       /\ fxparams = params
       /\ fxtype = type
       /\ fxcoeffs = UpdateCoefficients(type, "Hz48000", params)
       /\ fxdirty = FALSE
       /\ fxstates = StatesZero
       /\ fxret = FxRet("new", 0, NoBlock, NoBlock, "ok")

\* set_frequency / set_q / set_gain_db: the parameters after the call.  The
\* target is clamped and the ramp takes samples_for_milliseconds(10).
ParamsSet(params, name, value, lo, hi, rate) ==
    [params EXCEPT ![name] =
        SetTargetOf(@, Clamp(value, lo, hi), SamplesFor10Ms(rate))]

\* set_frequency(frequency)
SetFrequency ==
    /\ FxAlive /\ fxkind = "biquad"
    /\ \E frequency \in FreqVals :
        fxparams' = ParamsSet(fxparams, "frequency", frequency,
                              FreqMin, FreqMax, fxrate)
    /\ fxdirty' = TRUE
    /\ fxret' = FxRet("set_frequency", 0, NoBlock, NoBlock, "ok")
    /\ UNCHANGED <<outsideEffect, fxkind, fxenabled, fxrate, fxtype, fxcoeffs,
                   fxstates>>

\* set_q(q)
SetQ ==
    /\ FxAlive /\ fxkind = "biquad"
    /\ \E q \in QVals :
        fxparams' = ParamsSet(fxparams, "q", q, QMin, QMax, fxrate)
    /\ fxdirty' = TRUE
    /\ fxret' = FxRet("set_q", 0, NoBlock, NoBlock, "ok")
    /\ UNCHANGED <<outsideEffect, fxkind, fxenabled, fxrate, fxtype, fxcoeffs,
                   fxstates>>

\* set_gain_db(db)
SetGainDb ==
    /\ FxAlive /\ fxkind = "biquad"
    /\ \E db \in DbVals :
        fxparams' = ParamsSet(fxparams, "gain_db", db,
                              GainDbMin, GainDbMax, fxrate)
    /\ fxdirty' = TRUE
    /\ fxret' = FxRet("set_gain_db", 0, NoBlock, NoBlock, "ok")
    /\ UNCHANGED <<outsideEffect, fxkind, fxenabled, fxrate, fxtype, fxcoeffs,
                   fxstates>>

\* process: `if !self.enabled { return; }`
ReturnsEarlyNever(enabled) == FALSE
ReturnsEarly(enabled) == ~enabled

\* GainEffect::process, the loop from sample i (1-based) on: the parameter
\* and the block it leaves.
RECURSIVE GainLoop(_, _, _)
GainLoop(gain, block, i) ==
    IF i > Len(block) THEN [param |-> gain, out |-> block, val |-> "ok"]
    ELSE LET g == NextOf(gain)
         IN GainLoop(g, [block EXCEPT ![i] = Scaled(@, g.current)], i + 1)

\* PanEffect::process: `if let [left, right] = frame`
IsPairOrWider(channel_count) == channel_count >= 2
IsPair(channel_count) == channel_count = 2

\* PanEffect::process, the loop over chunks_exact_mut(channel_count) from
\* frame f (0-based) on.
RECURSIVE PanLoop(_, _, _, _)
PanLoop(pan, block, channel_count, f) ==
    IF (f + 1) * channel_count > Len(block)
    THEN [param |-> pan, out |-> block, val |-> "ok"]
    ELSE LET p == NextOf(pan)
             position == Clamp(p.current, -One, One)
             left_gain == PanLeftGain(position)
             right_gain == PanRightGain(position)
             l == f * channel_count + 1
         IN IF GainNewPanics(left_gain)
            THEN [param |-> p, out |-> block, val |-> "panic"]
            ELSE PanLoop(p,
                         IF IsPair(channel_count)
                         THEN [block EXCEPT
                                 ![l] = Scaled(@, left_gain),
                                 ![l + 1] = Scaled(@, right_gain)]
                         ELSE block,
                         channel_count, f + 1)

\* BiquadFilter::process: `if self.coeffs_dirty || ...is_smoothing() ...`
NeedsUpdateWhenDirty(dirty, params) == dirty
NeedsUpdate(dirty, params) ==
    \/ dirty
    \/ params.frequency.samples_remaining > 0
    \/ params.q.samples_remaining > 0
    \/ params.gain_db.samples_remaining > 0

\* BiquadState::process(input, coeffs): `output`, the difference equation
\* b0 * input + b1 * x1 + b2 * x2 - a1 * y1 - a2 * y2.  The model keeps the
\* derivation's inputs in the place of the five coefficients, so the
\* equation is computed with b0 = b1 = b2 = a1 = 1 and a2 = 0 whatever they
\* are.
BiquadOutput(st, input) == input + st.x1 + st.x2 - st.y1

\* BiquadState::process(input, coeffs): the history after the call.
BiquadStateProcess(st, input) ==
    [x1 |-> input, x2 |-> st.x1, y1 |-> BiquadOutput(st, input),
     y2 |-> st.y1]

\* `for (ch, sample) in frame.iter_mut().enumerate()`: the channel of the
\* sample at position i (1-based) of the block.
ChannelOfShared(i, channel_count) == 0
ChannelOf(i, channel_count) == (i - 1) % channel_count

\* BiquadFilter::process, the loops over chunks_exact_mut(channel_count)
\* and over the frame, from sample i (1-based) on: the histories and the
\* block they leave.
RECURSIVE BiquadLoop(_, _, _, _)
BiquadLoop(states, block, channel_count, i) ==
    IF i > (Len(block) \div channel_count) * channel_count
    THEN [states |-> states, out |-> block]
    ELSE LET ch == ChannelOf(i, channel_count)
         IN BiquadLoop([states EXCEPT ![ch] = BiquadStateProcess(@, block[i])],
                       [block EXCEPT ![i] = BiquadOutput(states[ch], @)],
                       channel_count, i + 1)

\* process(samples, channels): the fields and the outcome it leaves.
Processed(block, channels) ==
    LET ret == FxRet("process", channels, block, block, "ok")
        same == [params |-> fxparams, coeffs |-> fxcoeffs, dirty |-> fxdirty,
                 states |-> fxstates, ret |-> ret]
    IN IF ReturnsEarly(fxenabled) THEN same
       ELSE CASE fxkind = "gain" ->
                   LET r == GainLoop(fxparams.gain, block, 1)
                   IN [same EXCEPT !.params = [gain |-> r.param],
                                   !.ret.out = r.out]
              [] fxkind = "pan" ->
                   LET r == PanLoop(fxparams.pan, block, channels, 0)
                   IN [same EXCEPT !.params = [pan |-> r.param],
                                   !.ret.out = r.out,
                                   !.ret.val = r.val]
              [] fxkind = "biquad" ->
                   LET update == NeedsUpdate(fxdirty, fxparams)
                       params == IF update
                                 THEN [n \in DOMAIN fxparams |->
                                         NextOf(fxparams[n])]
                                 ELSE fxparams
                       r == BiquadLoop(fxstates, block, channels, 1)
                   IN [params |-> params,
                       coeffs |-> IF update
                                  THEN UpdateCoefficients(fxtype, fxrate,
                                                          params)
                                  ELSE fxcoeffs,
                       dirty |-> IF update THEN FALSE ELSE fxdirty,
                       states |-> r.states,
                       ret |-> [ret EXCEPT !.out = r.out,
                                           !.derived = update]]

\* process on any block of any layout.
Process ==
    /\ FxAlive
    /\ \E block \in Blocks, channels \in ChannelCounts :
        LET r == Processed(block, channels)
        IN /\ fxparams' = r.params
           /\ fxcoeffs' = r.coeffs
           /\ fxdirty' = r.dirty
           /\ fxstates' = r.states
           /\ fxret' = r.ret
    /\ UNCHANGED <<outsideEffect, fxkind, fxenabled, fxrate, fxtype>>

\* process on a block that holds no frame.
ProcessEmpty ==
    /\ FxAlive
    /\ LET r == Processed(NoBlock, 1)
       IN /\ fxparams' = r.params
          /\ fxcoeffs' = r.coeffs
          /\ fxdirty' = r.dirty
          /\ fxstates' = r.states
          /\ fxret' = r.ret
    /\ UNCHANGED <<outsideEffect, fxkind, fxenabled, fxrate, fxtype>>

\* initialize: `self.update_coefficients()` after the rate is stored.
InitializeCoeffsKept(type, rate, params, coeffs) == coeffs
InitializeCoeffs(type, rate, params, coeffs) ==
    UpdateCoefficients(type, rate, params)

\* initialize(sample_rate, channels): every effect stores the rate, and the
\* BiquadFilter derives its coefficients again.
Initialize ==
    /\ FxAlive
    /\ \E sample_rate \in SampleRates :
        /\ fxrate' = sample_rate
        /\ fxcoeffs' = IF fxkind = "biquad"
                       THEN InitializeCoeffs(fxtype, sample_rate, fxparams,
                                             fxcoeffs)
                       ELSE fxcoeffs
    /\ fxdirty' = FALSE
    /\ fxret' = FxRet("initialize", 0, NoBlock, NoBlock, "ok")
    /\ UNCHANGED <<outsideEffect, fxkind, fxenabled, fxparams, fxtype,
                   fxstates>>

\* reset: `p.set_immediate(p.target())`
ResetParamToCurrent(p) == SetImmediateOf(p, p.current)
ResetParam(p) == SetImmediateOf(p, p.target)

\* reset(): every parameter snaps to its target; the BiquadFilter resets
\* its 8 histories first and derives its coefficients last.
Reset ==
    /\ FxAlive
    /\ LET params == [n \in DOMAIN fxparams |-> ResetParam(fxparams[n])]
       IN /\ fxparams' = params
          /\ IF fxkind = "biquad"
             THEN /\ fxstates' = StatesZero
                  /\ fxcoeffs' = UpdateCoefficients(fxtype, fxrate, params)
                  /\ fxdirty' = FALSE
                  /\ UNCHANGED fxtype
             ELSE UNCHANGED fxfilter
    /\ fxret' = FxRet("reset", 0, NoBlock, NoBlock, "ok")
    /\ UNCHANGED <<outsideEffect, fxkind, fxenabled, fxrate>>

\* ChannelCount: Mono, Stereo, Quad, Surround51, Surround71.
AllChannelCounts == {1, 2, 4, 6, 8}

\* The blocks of up to one frame of the widest layout and one sample more.
LongBlocks == BlocksUpTo(MaxBlock + 5)

\* process on a block of any length and any of the five layouts.
ProcessLayout ==
    /\ FxAlive
    /\ \E block \in LongBlocks, channels \in AllChannelCounts :
        LET r == Processed(block, channels)
        IN /\ fxparams' = r.params
           /\ fxcoeffs' = r.coeffs
           /\ fxdirty' = r.dirty
           /\ fxstates' = r.states
           /\ fxret' = r.ret
    /\ UNCHANGED <<outsideEffect, fxkind, fxenabled, fxrate, fxtype>>

\* One whole frame of a layout.
FrameOf(channels) == [i \in 1..channels |-> One]

\* process on one frame, mono or of the widest layout.
ProcessFrame ==
    /\ FxAlive
    /\ \E channels \in {1, 8} :
        LET r == Processed(FrameOf(channels), channels)
        IN /\ fxparams' = r.params
           /\ fxcoeffs' = r.coeffs
           /\ fxdirty' = r.dirty
           /\ fxstates' = r.states
           /\ fxret' = r.ret
    /\ UNCHANGED <<outsideEffect, fxkind, fxenabled, fxrate, fxtype>>

\* One effect of any of the three kinds, as its constructor leaves it.
EffectInit ==
    \/ \E gain \in {GainFromDb(db) : db \in GainDbVals} : GainEffectNew(gain)
    \/ \E pan \in PanVals : PanEffectNew(pan)
    \/ \E type \in FilterTypes : WithParams(type, FreqDefault, QDefault, 0)

\* A BiquadFilter built from any parameters.
BiquadInit ==
    \E type \in FilterTypes, frequency \in FreqVals \cup {FreqDefault},
       q \in QVals \cup {QDefault}, gain_db \in DbVals \cup {0} :
        WithParams(type, frequency, q, gain_db)

\* No effect in use.
EffectParked == GainEffectNew(One)

EffectNext ==
    \/ SetEnabled \/ GainSetGainDb \/ PanSetPan \/ SetFrequency \/ Process

BiquadNext == SetFrequency \/ SetQ \/ SetGainDb \/ ProcessEmpty

\* A BiquadFilter built by BiquadFilter::new.
LifecycleInit ==
    \E type \in FilterTypes : WithParams(type, FreqDefault, QDefault, 0)

\* The life of a BiquadFilter: initialized for a rate, set, run and reset.
LifecycleNext ==
    SetFrequency \/ SetQ \/ Initialize \/ Reset \/ ProcessEmpty

\* A BiquadFilter runs on blocks of every layout.
HistoryNext == ProcessLayout \/ Reset

\* An effect of any kind is set, run frame by frame, and reset.
ResetNext ==
    \/ SetEnabled \/ GainSetGainDb \/ PanSetPan \/ SetFrequency \/ SetQ
    \/ SetGainDb \/ Reset \/ ProcessFrame

--------------------------------------------------------------------------
\* Part 7: error.rs, AudioEngineError

\* The variants of AudioEngineError that carry fields, and those that carry
\* none.
FieldVariants ==
    {"InvalidSampleRate", "InvalidChannelCount", "InvalidBufferSize",
     "NumericConversion", "BufferOverflow", "BufferUnderRun",
     "RingBufferFull", "RingBufferEmpty", "FormatMismatch",
     "SampleRateMismatch", "ChannelCountMismatch", "DeviceNotFound",
     "DeviceAccess", "FileNotFound", "UnsupportedFormat", "InvalidStreamUrl",
     "NetworkConnection", "Configuration", "PipelineState", "Io"}
UnitVariants == {"ChannelSendFailed", "ChannelRecvFailed"}

\* The values a variant's fields take: the patterns of is_recoverable and
\* is_fatal do not read them (`{ .. }`), so one number stands for them all.
Fields == 0..MaxField

ErrorOf(variant, field) == [variant |-> variant, field |-> field]

\* The calls that fail, and the error each returns: push on a full ring,
\* pop on an empty one, ControlSender::try_send on a full and on a
\* disconnected channel, send after the receiver is gone, recv after the
\* senders are gone.
FailedCalls ==
    {"push", "pop", "try_send_full", "try_send_disconnected", "send", "recv"}
ErrorFrom(call) ==
    CASE call = "push" -> ErrorOf(PushError, 1)
      [] call = "pop" -> ErrorOf(PopError, 1)
      [] call = "try_send_full" -> ErrorOf(TrySendError("Full"), 1)
      [] call = "try_send_disconnected" ->
           ErrorOf(TrySendError("Disconnected"), 0)
      [] call = "send" -> ErrorOf(SendError, 0)
      [] call = "recv" -> ErrorOf(RecvError, 0)

\* is_recoverable(&self)
IsRecoverableRingOnly(e) == e.variant \in {"RingBufferEmpty", "RingBufferFull"}
IsRecoverable(e) ==
    e.variant \in {"BufferUnderRun", "RingBufferEmpty", "RingBufferFull"}

\* is_fatal(&self)
IsFatal(e) ==
    e.variant \in {"DeviceNotFound", "DeviceAccess", "ChannelSendFailed",
                   "ChannelRecvFailed"}

\* A bool as the answer of a call.
Answer(b) == IF b THEN "true" ELSE "false"

\* An error built by hand.
ErrorBuilt ==
    \/ \E variant \in FieldVariants, field \in Fields :
        errval = ErrorOf(variant, field)
    \/ \E variant \in UnitVariants : errval = ErrorOf(variant, 0)

ErrorInit ==
    /\ ErrorBuilt
    /\ errfrom = "new"
    /\ errrec = "none"
    /\ errfat = "none"

\* No error in use.
ErrorParked ==
    /\ errval = ErrorOf("ChannelSendFailed", 0)
    /\ errfrom = "new"
    /\ errrec = "none"
    /\ errfat = "none"

\* A call fails and returns its error.
Failed ==
    /\ \E call \in FailedCalls :
        /\ errval' = ErrorFrom(call)
        /\ errfrom' = call
    /\ errrec' = "none"
    /\ errfat' = "none"
    /\ UNCHANGED outsideError

\* errval.is_recoverable()
CallIsRecoverable ==
    /\ errrec' = Answer(IsRecoverable(errval))
    /\ UNCHANGED <<outsideError, errval, errfrom, errfat>>

\* errval.is_fatal()
CallIsFatal ==
    /\ errfat' = Answer(IsFatal(errval))
    /\ UNCHANGED <<outsideError, errval, errfrom, errrec>>

ErrorNext == Failed \/ CallIsRecoverable \/ CallIsFatal

--------------------------------------------------------------------------
\* Part 8: types/sample.rs, impl TryFrom<u32> for SampleRate

\* The u32 values handed to try_from: the four rates, 0 and 19200, and the
\* values up to MaxNear away from them.
NearValues ==
    {n \in {v + d : v \in {0, 19200, 44100, 48000, 96000, 192000},
                    d \in (0 - MaxNear)..MaxNear} : n >= 0}

\* The rate a u32 is the as_hz() of, "none" when it is of none.
RateOfHz(value) ==
    IF \E r \in SampleRates : AsHz(r) = value
    THEN CHOOSE r \in SampleRates : AsHz(r) = value
    ELSE "none"

\* Result<SampleRate>
RateOk(rate) == [res |-> "Ok", rate |-> rate, err |-> ErrorOf("none", 0)]
RateErr(e) == [res |-> "Err", rate |-> "none", err |-> e]
NoRate == [res |-> "none", rate |-> "none", err |-> ErrorOf("none", 0)]

\* SampleRate::try_from(value): the `match value`.
TryFrom(value) ==
    CASE value = 44100 -> RateOk("Hz44100")
      [] value = 48000 -> RateOk("Hz48000")
      [] value = 96000 -> RateOk("Hz96000")
      [] value = 19200 -> RateOk("Hz192000")
      [] OTHER -> RateErr(ErrorOf("InvalidSampleRate", value))

RateInit ==
    /\ srvalue = 0
    /\ srrate = "none"
    /\ srret = NoRate

RateParked == RateInit

\* SampleRate::try_from(value) on any u32.
TryFromCall ==
    /\ \E value \in NearValues :
        /\ srvalue' = value
        /\ srrate' = RateOfHz(value)
        /\ srret' = TryFrom(value)
    /\ UNCHANGED outsideRate

\* SampleRate::try_from(rate.as_hz()) on a rate.
TryFromAsHz ==
    /\ \E rate \in SampleRates :
        /\ srvalue' = AsHz(rate)
        /\ srrate' = rate
        /\ srret' = TryFrom(AsHz(rate))
    /\ UNCHANGED outsideRate

RateNext == TryFromAsHz \/ TryFromCall

--------------------------------------------------------------------------
\* Part 9: audio/stream.rs, input_callback and output_callback

\* A position of `data` that output_callback has not written yet.
Unwritten == 0 - 1

\* The samples of the model are numbered from 1 in the order in which they
\* are made, so that each can be told from every other and from silence.

\* The blocks the device hands to a callback.
StreamLens == 0..MaxLen

\* The position after the one the loop has dealt with: `for` goes on with
\* the following element whatever push returned.
NextPositionBreaks(i, len, pushed) == IF pushed THEN i + 1 ELSE len + 1
NextPosition(i, len, pushed) == i + 1

\* reader.pop().map_or(0.0, |s| s.value()): the sample, or silence (0.0)
\* when the ring buffer is empty.
MapOrSilence(popped) == IF popped.ok THEN popped.val ELSE Silence

NoCallback == [op |-> "none", data |-> <<>>]
CallbackRet(op, data) == [op |-> op, data |-> data]

StreamInit ==
    /\ stkind \in {"input", "output"}
    /\ stcap \in 0..MaxCap
    /\ stq = <<>>
    /\ stpc = "idle"
    /\ stdata = <<>>
    /\ sti = 1
    /\ stret = NoCallback
    /\ stoffered = <<>>
    /\ sttaken = <<>>
    /\ stmark = 0
    /\ stfar = FALSE

StreamParked ==
    /\ stkind = "none"
    /\ stcap = 0
    /\ stq = <<>>
    /\ stpc = "idle"
    /\ stdata = <<>>
    /\ sti = 1
    /\ stret = NoCallback
    /\ stoffered = <<>>
    /\ sttaken = <<>>
    /\ stmark = 0
    /\ stfar = FALSE

\* The device calls input_callback(data, writer) with a block of fresh
\* samples.
InputCallback ==
    /\ stkind = "input"
    /\ stpc = "idle"
    /\ \E len \in StreamLens :
        /\ Len(stoffered) + len <= MaxElems
        /\ stdata' = [k \in 1..len |-> Len(stoffered) + k]
    /\ stpc' = "input_callback"
    /\ sti' = 1
    /\ stmark' = Len(sttaken)
    /\ stfar' = FALSE
    /\ UNCHANGED <<outsideStream, stkind, stcap, stq, stret, stoffered,
                   sttaken>>

\* One pass of `for &sample in data { let _ = writer.push(..); }`, or its
\* end.
InputCallbackStep ==
    /\ stpc = "input_callback"
    /\ IF sti <= Len(stdata)
       THEN LET pushed == RtrbPush(stq, stcap, stdata[sti])
            IN  /\ stq' = pushed.q
                /\ stoffered' = Append(stoffered, stdata[sti])
                /\ sti' = NextPosition(sti, Len(stdata), pushed.ok)
                /\ UNCHANGED <<stpc, stret>>
       ELSE /\ stpc' = "idle"
            /\ stret' = CallbackRet("input_callback", stdata)
            /\ UNCHANGED <<stq, stoffered, sti>>
    /\ UNCHANGED <<outsideStream, stkind, stcap, stdata, sttaken, stmark,
                   stfar>>

\* The device calls output_callback(data, reader) with a block to fill.
OutputCallback ==
    /\ stkind = "output"
    /\ stpc = "idle"
    /\ \E len \in StreamLens : stdata' = [k \in 1..len |-> Unwritten]
    /\ stpc' = "output_callback"
    /\ sti' = 1
    /\ stmark' = Len(sttaken)
    /\ stfar' = FALSE
    /\ UNCHANGED <<outsideStream, stkind, stcap, stq, stret, stoffered,
                   sttaken>>

\* One pass of `for sample in data.iter_mut() { *sample = .. }`, or its end.
OutputCallbackStep ==
    /\ stpc = "output_callback"
    /\ IF sti <= Len(stdata)
       THEN LET popped == RtrbPop(stq)
            IN  /\ stq' = popped.q
                /\ stdata' = [stdata EXCEPT ![sti] = MapOrSilence(popped)]
                /\ sttaken' = IF popped.ok
                              THEN Append(sttaken, popped.val)
                              ELSE sttaken
                /\ sti' = sti + 1
                /\ UNCHANGED <<stpc, stret>>
       ELSE /\ stpc' = "idle"
            /\ stret' = CallbackRet("output_callback", stdata)
            /\ UNCHANGED <<stq, stdata, sttaken, sti>>
    /\ UNCHANGED <<outsideStream, stkind, stcap, stoffered, stmark, stfar>>

\* The thread that holds the reader of an input stream pops one sample.
StreamPop ==
    /\ stkind = "input"
    /\ LET popped == RtrbPop(stq)
       IN  /\ popped.ok
           /\ stq' = popped.q
           /\ sttaken' = Append(sttaken, popped.val)
    /\ stfar' = (stfar \/ stpc # "idle")
    /\ UNCHANGED <<outsideStream, stkind, stcap, stpc, stdata, sti, stret,
                   stoffered, stmark>>

\* The thread that holds the writer of an output stream pushes one sample.
StreamPush ==
    /\ stkind = "output"
    /\ Len(stoffered) < MaxElems
    /\ LET pushed == RtrbPush(stq, stcap, Len(stoffered) + 1)
       IN  /\ pushed.ok
           /\ stq' = pushed.q
           /\ stoffered' = Append(stoffered, Len(stoffered) + 1)
    /\ stfar' = (stfar \/ stpc # "idle")
    /\ UNCHANGED <<outsideStream, stkind, stcap, stpc, stdata, sti, stret,
                   sttaken, stmark>>

StreamNext ==
    \/ InputCallback
    \/ InputCallbackStep
    \/ OutputCallback
    \/ OutputCallbackStep
    \/ StreamPop
    \/ StreamPush

--------------------------------------------------------------------------
\* Specifications

WriterNext == Push \/ PushSliceStart \/ PushSliceStep \/ PushAllStart
              \/ PushAllLoop \/ WriterDrop

ReaderNext == Pop \/ PopSliceStart \/ PopSliceStep \/ Peek \/ DiscardStart
              \/ DiscardStep \/ ReaderDrop

RingNext == WriterNext \/ ReaderNext

\* The ring buffer alone.
InitRing == RingInit /\ ChanParked /\ BufParked /\ AudioParked /\ ParamParked
    /\ EffectParked /\ ErrorParked /\ RateParked /\ StreamParked

SpecRing == InitRing /\ [][RingNext]_vars

\* Both ends stay alive, both threads keep being scheduled, and the reader
\* keeps popping: a pop that removes an element happens again and again
\* as long as it is possible again and again.
PopRemoves == Pop /\ queue # <<>>

\* The writer makes push_all calls; the reader pops, pops slices and peeks.
RingLiveNext ==
    \/ PushAllStart \/ PushAllLoop \/ PushSliceStep
    \/ Pop \/ PopSliceStart \/ PopSliceStep \/ Peek

SpecRingFair ==
    /\ InitRing
    /\ [][RingLiveNext]_vars
    /\ WF_vars(PushAllLoop)
    /\ WF_vars(PushSliceStep)
    /\ WF_vars(PopSliceStep)
    /\ SF_vars(PopRemoves)

Spec == SpecRing

\* The writer's thread keeps being scheduled; nothing is promised of the
\* reader, which pops when it likes, may stop for good and may be dropped.
RingStallNext ==
    PushAllStart \/ PushAllLoop \/ PushSliceStep \/ Pop \/ ReaderDrop

SpecRingStall ==
    /\ InitRing
    /\ [][RingStallNext]_vars
    /\ WF_vars(PushAllLoop)
    /\ WF_vars(PushSliceStep)

\* push, push_slice, pop and pop_slice with both handles asking for slots()
\* between their calls.
RingSlotsNext ==
    \/ Push \/ PushSliceStart \/ PushSliceStep \/ WriterSlots
    \/ Pop \/ PopSliceStart \/ PopSliceStep \/ ReaderSlots

SpecRingSlots == InitRing /\ [][RingSlotsNext]_vars

SenderNext ==
    \E s \in Senders :
        \/ ControlTrySend(s)
        \/ RealtimeTrySend(s)
        \/ ControlSend(s)
        \/ ControlSendReturn(s)
        \/ \E t \in Senders : SenderClone(s, t)
        \/ SenderDrop(s)

ReceiverNext ==
    \/ TryRecv \/ ProcessAllStart \/ ProcessAllStep \/ IsDisconnected
    \/ Recv("recv") \/ Recv("recv_timeout") \/ RecvReturn
    \/ Drain \/ ReceiverDrop

ChanNext == SenderNext \/ ReceiverNext

\* A control or feedback channel with its sender handles and its receiver.
InitChan == ChanInit /\ RingParked /\ BufParked /\ AudioParked /\ ParamParked
    /\ EffectParked /\ ErrorParked /\ RateParked /\ StreamParked

SpecChan == InitChan /\ [][ChanNext]_vars

\* A control channel: ControlSender handles on one side, the RealtimeReceiver
\* on the other.
InitControl == InitChan /\ chkind = "control"

ControlNext ==
    \/ \E s \in Senders :
        \/ ControlSend(s)
        \/ ControlSendReturn(s)
        \/ \E t \in Senders : SenderClone(s, t)
    \/ TryRecv \/ Drain \/ ReceiverDrop

\* Every thread keeps being scheduled: a blocked send that can return does,
\* and the real-time thread keeps calling try_recv as long as it holds the
\* receiver.
SpecControlFair ==
    /\ InitControl
    /\ [][ControlNext]_vars
    /\ \A s \in Senders : WF_vars(ControlSendReturn(s))
    /\ WF_vars(TryRecv)

\* A RealtimeBuffer and the calls of its owner.
InitBuf == BufInit /\ RingParked /\ ChanParked /\ AudioParked /\ ParamParked
    /\ EffectParked /\ ErrorParked /\ RateParked /\ StreamParked

SpecBuf == InitBuf /\ [][BufNext]_vars

\* An AudioBuffer and the calls of its owner.
InitAudio == AudioInit /\ RingParked /\ ChanParked /\ BufParked /\ ParamParked
    /\ EffectParked /\ ErrorParked /\ RateParked /\ StreamParked

SpecAudio == InitAudio /\ [][AudioNext]_vars

\* A SmoothParam and the calls of its owner.
InitParam ==
    /\ ParamInit /\ RingParked /\ ChanParked /\ BufParked /\ AudioParked
    /\ EffectParked /\ ErrorParked /\ RateParked /\ StreamParked

SpecParam == InitParam /\ [][ParamNext]_vars

\* No part but the effects in use.
OthersParked ==
    /\ RingParked /\ ChanParked /\ BufParked /\ AudioParked /\ ParamParked
    /\ ErrorParked /\ RateParked /\ StreamParked

\* One effect and the calls of the audio thread and of its owner.
InitEffect == EffectInit /\ OthersParked

SpecEffect == InitEffect /\ [][EffectNext]_vars

\* One BiquadFilter: its parameters, its sample rate, its coefficients.
InitBiquad == BiquadInit /\ OthersParked

SpecBiquad == InitBiquad /\ [][BiquadNext]_vars

\* One BiquadFilter from its construction on, at every sample rate.
InitLifecycle == LifecycleInit /\ OthersParked

SpecLifecycle == InitLifecycle /\ [][LifecycleNext]_vars

\* One BiquadFilter and the histories of its channels.
SpecHistory == InitLifecycle /\ [][HistoryNext]_vars

\* One effect between its resets.
SpecReset == InitEffect /\ [][ResetNext]_vars

\* One error value and the questions asked of it.
InitError ==
    /\ ErrorInit /\ RingParked /\ ChanParked /\ BufParked /\ AudioParked
    /\ ParamParked /\ EffectParked /\ RateParked /\ StreamParked

SpecError == InitError /\ [][ErrorNext]_vars

\* No part but the conversion or the stream in use.
CoreParked ==
    /\ RingParked /\ ChanParked /\ BufParked /\ AudioParked /\ ParamParked
    /\ EffectParked /\ ErrorParked

\* Conversions of u32 values to sample rates.
InitRate == RateInit /\ CoreParked /\ StreamParked

SpecRate == InitRate /\ [][RateNext]_vars

\* One stream: the audio thread's callback and the thread at the other end.
InitStream == StreamInit /\ CoreParked /\ RateParked

SpecStream == InitStream /\ [][StreamNext]_vars


--------------------------------------------------------------------------
\* Properties of the ring buffer

\* What the reader's interface has handed out so far, the entries a pop_slice
\* in progress has already filled included.
DeliveredNow ==
    delivered \o (IF rpc = "pop_slice" THEN SubSeq(rdst, 1, rcount) ELSE <<>>)

IsPop(e) == e.how = "pop"
Popped == Vals(SelectSeq(removed, IsPop))

\* C1: with one writer and one reader interleaved arbitrarily, the elements
\* the reader returns come out in push order, none twice and none lost: the
\* elements taken out of the queue followed by the ones still queued are
\* exactly the accepted ones in push order, the reader returns exactly the
\* ones taken out by pop/pop_slice, and as long as nothing was discarded the
\* returned sequence is a prefix of the accepted sequence.
C1_FifoDelivery ==
    /\ Enqueued = accepted
    /\ DeliveredNow = Popped
    /\ (\A i \in 1..Len(removed) : IsPop(removed[i]))
           => IsPrefix(DeliveredNow, accepted)

\* A pop_slice and a push_slice are both under way, each has moved an
\* element, and elements were returned before.
C1_Witness ==
    /\ wpc = "push_slice" /\ wcount >= 1
    /\ rpc = "pop_slice" /\ rcount >= 1
    /\ Len(delivered) >= 1
    /\ queue # <<>>

\* C2: a ring buffer made by RingBuffer::new(c) never holds more than c
\* elements: accepted and not yet removed, and queued, are both at most c.
C2_CapacityBound ==
    /\ Len(queue) <= reqcap
    /\ Len(accepted) - Len(removed) <= reqcap

\* The largest buffer is full and a push was turned away.
C2_Witness ==
    /\ reqcap = MaxCap
    /\ Len(queue) = reqcap
    /\ wret.op = "push" /\ wret.err = "RingBufferFull"

\* C3: push with no free slot returns RingBufferFull and pop with nothing
\* queued returns RingBufferEmpty; either call is over in that one step (the
\* thread is idle again, it has not waited) and the queue and its history
\* are unchanged.
C3_FullEmptyErrors ==
    [][ /\ (Push /\ Len(queue) >= capacity)
            => /\ wret' = WRet("push", "RingBufferFull", wret'.val)
               /\ wpc' = "idle"
               /\ queue' = queue /\ accepted' = accepted
        /\ (Pop /\ queue = <<>>)
            => /\ rret' = RRet("pop", "RingBufferEmpty", rret'.val)
               /\ rpc' = "idle"
               /\ queue' = queue /\ removed' = removed
               /\ delivered' = delivered
      ]_vars

\* A push was turned away by a full buffer, and later a pop by an empty one.
C3_Witness ==
    /\ capacity >= 1
    /\ wret.op = "push" /\ wret.err = "RingBufferFull"
    /\ rret.op = "pop" /\ rret.err = "RingBufferEmpty"
    /\ queue = <<>>

\* C4: push_slice(s), called by a user, returns a count k <= s.len(), never
\* an error; exactly the first k elements of s were enqueued by the call, in
\* order, and nothing else; if the reader removed nothing during the call
\* then k = min(s.len(), free slots at the start); and every turn of its loop
\* either enqueues the next element or returns, so it never waits.
C4_PushSlicePrefix ==
    [][ (PushSliceStep /\ wcaller = "user")
            => IF wpc' = "idle"
               THEN LET k == wret'.val
                    IN /\ wret' = WRet("push_slice", "none", k)
                       /\ k >= 0 /\ k <= Len(wslice)
                       /\ Len(Enqueued') = wstart.acc + k
                       /\ SubSeq(Enqueued', wstart.acc + 1, wstart.acc + k)
                              = SubSeq(wslice, 1, k)
                       /\ accepted' = Enqueued'
                       /\ (Len(removed') = wstart.rem)
                              => k = Min(Len(wslice),
                                         capacity - wstart.qlen)
               ELSE /\ wpc' = "push_slice"
                    /\ wi' = wi + 1
                    /\ queue' = Append(queue, wslice[wi])
      ]_vars

\* A push_slice returned a partial count (some but not all of a slice of three)
\* while the reader removed an element during the call.
C4_Witness ==
    /\ wret.op = "push_slice"
    /\ wret.val = 2
    /\ Len(accepted) >= 3
    /\ capacity = 1

\* C5: pop_slice(dst) returns a count k <= dst.len(); dst[0..k] holds the k
\* oldest queued elements in FIFO order (the ones that follow the elements
\* removed before the call), they are out of the queue, and every entry of
\* dst at index >= k has the value it had before the call.  The same holds
\* of the count so far while the call is under way.
C5_PopSliceFrame ==
    (rpc = "pop_slice" \/ rret.op = "pop_slice")
        => LET k == IF rpc = "pop_slice" THEN rcount ELSE rret.val
               base == Len(removed) - k
           IN /\ k >= 0 /\ k <= Len(rdst)
              /\ base >= 0
              /\ SubSeq(rdst, 1, k) = SubSeq(accepted, base + 1, base + k)
              /\ \A i \in 1..k : IsPop(removed[base + i])
              /\ \A i \in 1..k : \A j \in 1..Len(queue) : queue[j] # rdst[i]
              /\ \A i \in (k + 1)..Len(rdst) : rdst[i] = DstInit(Len(rdst))[i]

\* A pop_slice into a destination of three returned one element: the first
\* entry holds it and the other two are as they were.
C5_Witness ==
    /\ rret.op = "pop_slice"
    /\ rret.val = 1
    /\ Len(rdst) = 3
    /\ rdst[1] >= 2

\* C6: peek returns the oldest queued element, None when the queue is
\* empty, and changes nothing of the queue (same elements, same number); a
\* pop that follows a peek that returned Some(x) returns x, whatever the
\* writer pushed in between.
C6_PeekKeepsQueue ==
    [][ /\ Peek => /\ queue' = queue
                   /\ Len(queue') = Len(queue)
                   /\ removed' = removed
                   /\ rret' = IF queue = <<>>
                              THEN RRet("peek", "None", 0)
                              ELSE RRet("peek", "Some", Head(queue))
        /\ (Pop /\ rret.op = "peek" /\ rret.err = "Some")
               => rret' = RRet("pop", "none", rret.val)
      ]_vars

\* A peek has shown the oldest of two queued elements, which are still there.
C6_Witness ==
    /\ rret.op = "peek" /\ rret.err = "Some"
    /\ Len(queue) >= 2
    /\ rret.val = Head(queue)

\* C7: discard(n) removes the oldest queued elements and returns how many:
\* never more than n, min(n, number queued at the start) when no push was
\* accepted during the call; the elements it removed are the oldest ones in
\* order, and what remains queued is the rest of the accepted elements in
\* their original order, so they are delivered afterwards in that order.
C7_DiscardOldest ==
    [][ DiscardStep
            => IF rpc' = "idle"
               THEN LET k == rret'.val
                    IN /\ rret' = RRet("discard", "none", k)
                       /\ k >= 0 /\ k <= rn
                       /\ Len(removed') = rstart.rem + k
                       /\ \A i \in 1..k :
                            removed'[rstart.rem + i] =
                              [val |-> accepted[rstart.rem + i],
                               how |-> "discard"]
                       /\ (Len(accepted) = rstart.acc)
                              => k = Min(rn, rstart.qlen)
                       /\ queue' = SubSeq(accepted, Len(removed') + 1,
                                          Len(accepted))
                       /\ delivered' = delivered
               ELSE /\ rpc' = "discard"
                    /\ queue' = Tail(queue)
                    /\ rcount' = rcount + 1
      ]_vars

\* A discard(2) on a queue of more than it was asked to drop: 2 are gone and
\* an element remains.
C7_Witness ==
    /\ rret.op = "discard"
    /\ rret.val = 2
    /\ queue # <<>>
    /\ Len(removed) >= 2
    /\ removed[Len(removed)].how = "discard"

\* A call of push_all is under way (in its own loop or in the push_slice
\* it called).
InPushAll == wpc = "push_all" \/ (wpc = "push_slice" /\ wcaller = "push_all")

\* push_all returns Ok having enqueued exactly its slice: what rtrb was given
\* since the call began is the slice, each element once and in order.
PushAllDelivers ==
    (PushAllLoop /\ wpc' = "idle")
        => /\ wret' = WRet("push_all", "none", Len(wall))
           /\ SubSeq(Enqueued', wstart.acc + 1, Len(Enqueued')) = wall
           /\ accepted' = Enqueued'

\* C8 as stated: with a reader that keeps popping, every push_all eventually
\* returns Ok with every element of its slice enqueued once and in order,
\* whatever the capacity.
C8_PushAllReturns ==
    /\ InPushAll ~> (wpc = "idle" /\ wret.op = "push_all")
    /\ [][PushAllDelivers]_vars

\* C8 amended: the same for a ring buffer whose capacity is at least 1 (a
\* slice longer than the capacity included) and for an empty slice.
C8_PushAllReturnsCapacity ==
    /\ (InPushAll /\ (capacity >= 1 \/ wall = <<>>))
           ~> (wpc = "idle" /\ wret.op = "push_all")
    /\ [][PushAllDelivers]_vars

\* A push_all of three elements into a buffer of capacity 1 has returned.
C8_Witness ==
    /\ capacity = 1
    /\ wret = WRet("push_all", "none", 3)
    /\ wpc = "idle"

\* A call of the reader returns in this step.
ReaderReturns ==
    \/ Pop
    \/ Peek
    \/ (PopSliceStep /\ rpc' = "idle")
    \/ (DiscardStep /\ rpc' = "idle")

\* C9 as stated: once the writer has been dropped, every operation of the
\* reader that returns reports disconnection.
C9_ReportsDisconnection ==
    [][ (wpc = "dropped" /\ ReaderReturns) => rret'.err = DisconnectionError
      ]_vars

\* C9 amended: once the writer has been dropped, the reader's operations
\* return what they return on a live buffer: pop the oldest element or
\* RingBufferEmpty, peek Some or None, pop_slice and discard their counts;
\* none reports disconnection, each single call is over in one step and each
\* loop turn moves on by one element or returns, so none blocks.
C9_DropSeenAsEmpty ==
    [][ wpc = "dropped"
            => /\ Pop => /\ rret' = IF queue = <<>>
                                    THEN RRet("pop", "RingBufferEmpty", 0)
                                    ELSE RRet("pop", "none", Head(queue))
                         /\ rpc' = "idle"
               /\ Peek => /\ rret' = IF queue = <<>>
                                     THEN RRet("peek", "None", 0)
                                     ELSE RRet("peek", "Some", Head(queue))
                          /\ rpc' = "idle"
               /\ PopSliceStep
                    => \/ rpc' = "idle" /\ rret' = RRet("pop_slice", "none",
                                                        rcount)
                       \/ rpc' = "pop_slice" /\ ri' = ri + 1
                             /\ ri <= Len(rdst)
               /\ DiscardStep
                    => \/ rpc' = "idle" /\ rret' = RRet("discard", "none",
                                                        rcount)
                       \/ rpc' = "discard" /\ ri' = ri + 1 /\ ri <= rn
               /\ ReaderReturns => rret'.err # DisconnectionError
      ]_vars

\* The writer was dropped, the reader then took elements out, and its last
\* pop found the queue empty.
C9_Witness ==
    /\ wpc = "dropped"
    /\ Len(removed) > wstart.rem
    /\ queue = <<>>
    /\ rret = RRet("pop", "RingBufferEmpty", 0)

\* C10: the ends are dropped independently.  Dropping one end leaves the
\* queue and the other end as they are.  After the writer is dropped nothing
\* more is accepted, a pop returns the oldest element still queued (so the
\* elements queued at the drop come out in order) and once the queue is empty
\* it stays empty and every pop fails with RingBufferEmpty.  After the reader
\* is dropped nothing more is removed, a push into a free slot succeeds and
\* once the queue is full it stays full and every push fails with
\* RingBufferFull.
C10_IndependentDrop ==
    [][ /\ WriterDrop => (queue' = queue /\ rpc' = rpc /\ rret' = rret)
        /\ ReaderDrop => (queue' = queue /\ wpc' = wpc /\ wret' = wret)
        /\ wpc = "dropped"
            => /\ accepted' = accepted
               /\ IsPrefix(Vals(removed'), accepted)
               /\ (Pop /\ queue # <<>>)
                    => /\ rret' = RRet("pop", "none",
                                       accepted[Len(removed) + 1])
                       /\ queue' = Tail(queue)
               /\ (Pop /\ queue = <<>>)
                    => rret' = RRet("pop", "RingBufferEmpty", 0)
               /\ queue = <<>> => queue' = <<>>
        /\ rpc = "dropped"
            => /\ removed' = removed
               /\ (Push /\ Len(queue) < capacity)
                    => /\ wret'.err = "none"
                       /\ queue' = Append(queue, wret'.val)
               /\ (Push /\ Len(queue) >= capacity)
                    => wret' = WRet("push", "RingBufferFull", wret'.val)
               /\ Len(queue) >= capacity => queue' = queue
      ]_vars

\* The reader was dropped, the writer then filled the free slots, and its
\* last push was turned away.
C10_Witness ==
    /\ rpc = "dropped"
    /\ capacity >= 1
    /\ Len(queue) = capacity
    /\ Len(accepted) > rstart.acc
    /\ wret.op = "push" /\ wret.err = "RingBufferFull"

\* The number of elements queued according to the two interfaces: reported
\* as enqueued and not yet taken out.
QueuedCount == Len(accepted) - Len(removed)

WriterSlotsReturns == wret'.op = "slots" /\ wret' # wret
ReaderSlotsReturns == rret'.op = "slots" /\ rret' # rret
PopSliceReturns == rpc = "pop_slice" /\ rpc' = "idle"

\* C11: RingBufferWriter::slots() returns the capacity given to
\* RingBuffer::new minus the number of queued elements, and
\* RingBufferReader::slots() returns the number of queued elements, so with
\* no operation in progress the two results sum to the capacity.  After a
\* push_slice of n elements into an empty buffer that nothing was removed
\* from, the writer reports capacity - n slots, and a pop_slice into a
\* destination no longer than the number of elements queued at its call
\* returns the length of the destination, the destination holding the oldest
\* elements in push order (capacity 48, n = 40: 8 slots, pop_slice returns 40).
C11_SlotsSumToCapacity ==
    [][/\ WriterSlotsReturns => wret'.val = reqcap - QueuedCount
       /\ ReaderSlotsReturns => rret'.val = QueuedCount
       /\ (wpc = "idle" /\ rpc = "idle")
            => WriterSlotsValue(queue, capacity) + ReaderSlotsValue(queue)
                 = reqcap
       /\ (WriterSlotsReturns /\ wret.op = "push_slice" /\ removed = <<>>
             /\ Len(accepted) = wret.val)
            => wret'.val = reqcap - wret.val
       /\ (PopSliceReturns /\ rstart.qlen >= Len(rdst))
            => /\ rret'.val = Len(rdst)
               /\ rdst' = SubSeq(accepted, rstart.rem + 1,
                                 rstart.rem + Len(rdst))]_vars

\* A push_slice put one element into an empty buffer of capacity 2, the writer
\* then reported 1 free slot and the reader 1 queued element, and nothing was
\* removed.
C11_Witness ==
    /\ reqcap = 2 /\ Len(accepted) = 1 /\ removed = <<>>
    /\ wpc = "idle" /\ wret.op = "slots" /\ wret.val = 1
    /\ rpc = "idle" /\ rret.op = "slots" /\ rret.val = 1

--------------------------------------------------------------------------
\* Properties of the channels

\* Everything the channel ever took, in the order it moved on or is queued.
ChanTaken == chremoved \o chq

Range(q) == {q[i] : i \in 1..Len(q)}

SenderReturns(s, op) ==
    /\ spc[s] = "idle"
    /\ sret'[s].op = op
    /\ sret'[s] # sret[s]

\* C13: ControlSender::try_send is over in one step (the handle is idle
\* again).  With the receiver dropped it returns ChannelSendFailed; with the
\* receiver alive and c messages queued it returns RingBufferFull; in both
\* cases the queue and everything the channel took are unchanged and the
\* message is not counted as accepted.  Otherwise it returns Ok and the queue
\* is the old queue with the message appended.
C13_TrySendFailsFast ==
    [][\A s \in Senders :
         (chkind = "control" /\ SenderReturns(s, "try_send")) =>
            LET m == sret'[s].msg
                failed == /\ chq' = chq
                          /\ ChanTaken' = ChanTaken
                          /\ chsending' = chsending
                          /\ chaccepted' = chaccepted
            IN /\ spc'[s] = "idle"
               /\ rxpc = "dropped"
                    => sret'[s].val = "ChannelSendFailed" /\ failed
               /\ (rxpc # "dropped" /\ Len(chq) >= chreq)
                    => sret'[s].val = "RingBufferFull" /\ failed
               /\ (rxpc # "dropped" /\ Len(chq) < chreq)
                    => /\ sret'[s].val = "none"
                       /\ chq' = Append(chq, m)
                       /\ m \in chaccepted']_vars

\* One handle's try_send was turned away by a full channel while the receiver
\* was alive, and after the receiver was dropped the other handle's try_send
\* failed, the message of the first still queued.
C13_Witness ==
    /\ chkind = "control" /\ rxpc = "dropped"
    /\ chq # <<>>
    /\ sret[1] = SRet("try_send", "RingBufferFull", sret[1].msg)
    /\ sret[2] = SRet("try_send", "ChannelSendFailed", sret[2].msg)

\* The message of handle s leaves the waiting senders for the channel.
Unparks(s) ==
    /\ Parked(s)
    /\ ~Parked(s)'
    /\ sret[s].msg \in Range(ChanTaken')

SendReturnedOk(s) ==
    spc[s] = "idle" /\ sret[s].op = "send" /\ sret[s].val = "none"

\* C14: a ControlSender::send that finds the channel full (c messages queued,
\* receiver alive) neither fails nor touches the queue: its message is parked
\* and the call blocks.  A parked message enters the channel only once the
\* receiver has been given a message since the send began, the queue never
\* holds more than c messages, and a blocked send eventually returns Ok
\* unless the receiver is dropped.
C14_SendWaitsOnFull ==
    /\ [](Len(chq) <= chreq)
    /\ [][\A s \in Senders :
            /\ (SenderReturns(s, "send") /\ rxpc # "dropped"
                  /\ Len(chq) >= chreq)
                 => /\ spc'[s] = "send"
                    /\ sret'[s].val = "blocked"
                    /\ chq' = chq
                    /\ ChanTaken' = ChanTaken
                    /\ chsending' = Append(chsending, sret'[s].msg)
                    /\ chaccepted' = chaccepted
            /\ Unparks(s) => Len(chremoved') > sstart[s]
            /\ (spc[s] = "send" /\ spc'[s] = "idle" /\ rxpc # "dropped")
                 => /\ sret'[s].val = "none"
                    /\ sret'[s].msg \in Range(ChanTaken)]_vars
    /\ \A s \in Senders :
         spc[s] = "send" ~> (SendReturnedOk(s) \/ rxpc = "dropped")

\* A send blocked on the full channel; the receiver then took a message,
\* which moved the parked message to the tail of the queue, and the send is
\* about to return.
C14_Witness ==
    /\ chreq >= 1 /\ Len(chq) = chreq
    /\ chreceived # <<>>
    /\ spc[1] = "send" /\ ~Parked(1)
    /\ sret[1].msg = chq[Len(chq)]
    /\ Len(chremoved) > sstart[1]

\* The oldest message the channel holds: queued, or parked by a blocked send.
ChanHeld == chq \o chsending

\* The receiver makes a call of try_recv in this step.
TryRecvReturns ==
    /\ rxpc = "idle" /\ rxpc' = "idle"
    /\ rxret'.op = "try_recv"
    /\ rxret' # rxret \/ chremoved' # chremoved

\* process_all: the messages passed to the callback since the call began.
PassedOn == SubSeq(chreceived, rxstart.rec + 1, Len(chreceived))

\* C15: on a control channel the receiver is never blocked.  A try_recv is
\* over in one step: it returns the oldest message the channel holds, which
\* leaves the channel, or None when the channel holds nothing.  A process_all
\* passes the oldest message to the callback each turn; the messages queued
\* when the call began are passed (or still queued) in queue order, none
\* twice; the call goes on while the channel holds a message and returns in
\* the very turn that finds it empty, all of those messages passed.
C15_ReceiverNeverBlocks ==
    /\ [](chkind = "control" =>
            /\ rxpc \in {"idle", "process_all", "dropped"}
            /\ rxpc = "process_all" =>
                 /\ IsPrefix(rxstart.q, PassedOn \o chq)
                 /\ \A i, j \in 1..Len(chreceived) :
                      i # j => chreceived[i] # chreceived[j])
    /\ [][chkind = "control" =>
            /\ TryRecvReturns =>
                 IF ChanHeld = <<>>
                 THEN rxret' = RxRet("try_recv", "None", <<>>)
                        /\ chreceived' = chreceived
                 ELSE /\ rxret' = RxRet("try_recv", "Some", <<Head(ChanHeld)>>)
                      /\ ChanHeld' = Tail(ChanHeld)
                      /\ chreceived' = Append(chreceived, Head(ChanHeld))
            /\ (rxpc = "process_all" /\ chreceived' # chreceived) =>
                 /\ rxpc' = "process_all"
                 /\ chreceived' = Append(chreceived, Head(ChanHeld))
                 /\ ChanHeld' = Tail(ChanHeld)
            /\ (rxpc = "process_all" /\ rxpc' # "process_all") =>
                 /\ ChanHeld = <<>>
                 /\ rxpc' = "idle"
                 /\ rxret' = RxRet("process_all", "done", <<>>)
                 /\ IsPrefix(rxstart.q, PassedOn)]_vars

\* A process_all that began with a message queued has passed that message and
\* one more on to the callback and is still under way; the receiver had
\* received before.
C15_Witness ==
    /\ chkind = "control"
    /\ rxpc = "process_all"
    /\ rxstart.q # <<>> /\ rxstart.rec >= 1
    /\ Len(PassedOn) >= 2

\* The feedback channel has no room for a message: c messages are queued and
\* no receiver is blocked waiting for one.
FeedbackFull == Len(chq) >= chreq /\ ~ReceiverWaiting

\* C16: RealtimeSender::try_send is over in one step.  When the channel has
\* no room (or the receiver is gone) it returns false: the message is not in
\* the channel and the queue, the receiver's slot and everything the channel
\* took are unchanged.  It returns true only when the message became the
\* newest of the messages the channel took: appended to the queue, or handed
\* to the receiver blocked on the empty queue.  With room and the receiver
\* alive it returns true.
C16_RtTrySendDrops ==
    [][\A s \in Senders :
         (chkind = "feedback" /\ SenderReturns(s, "try_send")) =>
            LET m == sret'[s].msg
            IN /\ spc'[s] = "idle"
               /\ sret'[s].val \in {"true", "false"}
               /\ (FeedbackFull \/ rxpc = "dropped") => sret'[s].val = "false"
               /\ sret'[s].val = "false" =>
                    /\ chq' = chq /\ chslot' = chslot
                    /\ ChanTaken' = ChanTaken
                    /\ chaccepted' = chaccepted
                    /\ m \notin chaccepted
               /\ sret'[s].val = "true" =>
                    /\ ChanTaken' = Append(ChanTaken, m)
                    /\ \/ chq' = Append(chq, m) /\ chslot' = chslot
                       \/ chq = <<>> /\ chq' = <<>> /\ chslot' = <<m>>
                    /\ m \in chaccepted'
               /\ (~FeedbackFull /\ rxpc # "dropped") =>
                    sret'[s].val = "true"]_vars

\* On a full feedback channel with the receiver alive, one handle's message
\* was dropped (false) after the other handle's message had been queued
\* (true); the queue still holds that message.
C16_Witness ==
    /\ chkind = "feedback" /\ rxpc = "idle"
    /\ chreq >= 1 /\ Len(chq) = chreq
    /\ sret[1].op = "try_send" /\ sret[1].val = "true"
    /\ sret[1].msg = chq[Len(chq)]
    /\ sret[2].op = "try_send" /\ sret[2].val = "false"

\* No sender handle is alive.
AllSendersGone == \A s \in Senders : spc[s] \notin {"idle", "send"}

\* The receiver makes a call of recv / recv_timeout in this step.
RecvCalled ==
    /\ rxpc = "idle"
    /\ \/ rxpc' \in {"recv", "recv_timeout"}
       \/ /\ rxret'.op \in {"recv", "recv_timeout"}
          /\ rxret' # rxret \/ chremoved' # chremoved

\* C17: a dropped end stays dropped and the other end sees it without
\* blocking.  Once the receiver is dropped, every send / try_send of a
\* ControlSender called from then on returns ChannelSendFailed and every
\* try_send of a RealtimeSender returns false, in one step and with the queue
\* untouched, and a send that was blocked can return.  Once every sender
\* handle is dropped, ControlReceiver::recv / recv_timeout does not block: it
\* returns the oldest queued message while there is one and ChannelRecvFailed
\* after that, and a call that was blocked returns the message it was handed
\* or ChannelRecvFailed.  RealtimeReceiver::is_disconnected returns true
\* exactly when no sender handle is alive.
C17_DropDisconnects ==
    /\ [](/\ \A s \in Senders :
              (rxpc = "dropped" /\ spc[s] = "send")
                 => ENABLED ControlSendReturn(s)
          /\ (AllSendersGone /\ rxpc \in {"recv", "recv_timeout"})
                 => ENABLED RecvReturn)
    /\ [][/\ rxpc = "dropped" => rxpc' = "dropped"
          /\ AllSendersGone => AllSendersGone'
          /\ \A s \in Senders :
               (rxpc = "dropped" /\ spc[s] = "idle" /\ sret'[s] # sret[s]
                  /\ sret'[s].op \in {"send", "try_send"}) =>
                 /\ spc'[s] = "idle"
                 /\ sret'[s].val = IF chkind = "control"
                                   THEN "ChannelSendFailed" ELSE "false"
                 /\ chq' = chq /\ ChanTaken' = ChanTaken
                 /\ chaccepted' = chaccepted
          /\ (AllSendersGone /\ RecvCalled) =>
               /\ rxpc' = "idle"
               /\ IF chq # <<>>
                  THEN /\ rxret'.val = "Ok" /\ rxret'.msgs = <<Head(chq)>>
                       /\ chq' = Tail(chq)
                  ELSE /\ rxret'.val = "ChannelRecvFailed"
                       /\ rxret'.msgs = <<>>
          /\ (AllSendersGone /\ rxpc \in {"recv", "recv_timeout"}
                /\ rxpc' # rxpc) =>
               /\ rxpc' = "idle"
               /\ IF chslot # <<>>
                  THEN rxret'.val = "Ok" /\ rxret'.msgs = chslot
                  ELSE rxret'.val = "ChannelRecvFailed"
          /\ (rxret'.op = "is_disconnected" /\ rxret' # rxret) =>
               (rxret'.val = "true" <=> AllSendersGone)
               /\ rxret'.val \in {"true", "false"}]_vars

\* Both handles of a feedback channel were dropped; messages they had sent
\* were received, and the receiver's last recv returned ChannelRecvFailed.
C17_Witness ==
    /\ chkind = "feedback"
    /\ spc[1] = "dropped" /\ spc[2] = "dropped"
    /\ chaccepted # {}
    /\ chreceived # <<>>
    /\ rxpc = "idle"
    /\ rxret = RxRet("recv", "ChannelRecvFailed", <<>>)

--------------------------------------------------------------------------
\* Properties of RealtimeBuffer

\* C19: after any sequence of calls on a RealtimeBuffer made by new or
\* with_value, len is at most the capacity and the capacity (the length of
\* the boxed slice) is the value given at construction; a set_len(n) panics
\* exactly when n exceeds the capacity, and one that returned left len = n.
C19_LenWithinCapacity ==
    /\ rblen <= Len(rbdata)
    /\ Len(rbdata) = rbreq
    /\ rbret.op = "set_len" =>
         /\ rbret.val = "panic" <=> rbret.arg > rbreq
         /\ rbret.val = "ok" => rblen = rbret.arg

\* A set_len beyond the capacity panicked on a buffer that holds elements the
\* owner wrote, with len below the capacity.
C19_Witness ==
    /\ rbreq = MaxBufCap
    /\ rbret = RbRet("set_len", rbreq + 1, "panic")
    /\ 0 < rblen /\ rblen < rbreq
    /\ \E i \in 1..rbreq : rbdata[i] # BufDefault

\* A call of resize is made in this step.
ResizeCalled == rbret'.op = "resize" /\ rbvars' # rbvars

\* C20: resize(n) never panics and leaves len = min(n, capacity), for n = 0
\* and n > capacity too; the boxed slice keeps its length; when len grows,
\* the positions from the old len up to the new len hold the default after
\* the call and every other position holds what it held; when len does not
\* grow, no element changes.
C20_ResizeClamps ==
    [][ResizeCalled =>
         LET n == rbret'.arg
         IN /\ rbret'.val = "ok"
            /\ rblen' = Min(n, rbreq)
            /\ Len(rbdata') = Len(rbdata)
            /\ \A i \in 1..Len(rbdata) :
                 rbdata'[i] = IF rblen < i /\ i <= rblen'
                              THEN BufDefault ELSE rbdata[i]
            /\ rblen' <= rblen => rbdata' = rbdata]_vars

\* A resize beyond the capacity was clamped to the capacity: the element the
\* buffer held before is kept and the exposed positions hold the default.
C20_Witness ==
    /\ rbreq = MaxBufCap
    /\ rbret = RbRet("resize", rbreq + 1, "ok")
    /\ rblen = rbreq
    /\ rbdata[1] # BufDefault
    /\ \A i \in 2..rbreq : rbdata[i] = BufDefault

\* A call of copy_from_slice is made in this step.
CopyCalled == rbret'.op = "copy_from_slice" /\ rbvars' # rbvars

\* C21: copy_from_slice(src) with src longer than the capacity returns
\* BufferOverflow and leaves len and every stored element as they were;
\* otherwise it returns Ok, the first src.len() elements equal src, len is
\* src.len(), and the elements from src.len() on are untouched.
C21_CopyFromSlice ==
    [][CopyCalled =>
         LET src == rbret'.src
         IN IF Len(src) > rbreq
            THEN /\ rbret'.val = "BufferOverflow"
                 /\ rblen' = rblen
                 /\ rbdata' = rbdata
            ELSE /\ rbret'.val = "ok"
                 /\ rblen' = Len(src)
                 /\ Len(rbdata') = Len(rbdata)
                 /\ \A i \in 1..Len(src) : rbdata'[i] = src[i]
                 /\ \A i \in (Len(src) + 1)..Len(rbdata) :
                      rbdata'[i] = rbdata[i]]_vars

\* A slice shorter than the buffer was copied over a longer content: the
\* prefix is the slice and the element behind it is the old one.
C21_Witness ==
    /\ rbreq = MaxBufCap
    /\ rbret = RbRetSlice("copy_from_slice", <<BufDefault>>, "ok")
    /\ rblen = 1
    /\ rbdata[1] = BufDefault
    /\ rbdata[rbreq] # BufDefault

\* A call of get_sample / set_sample is made in this step.
GetSampleCalled == abret'.op = "get_sample" /\ abvars' # abvars
SetSampleCalled == abret'.op = "set_sample" /\ abvars' # abvars

\* The (frame, channel) pairs inside the buffer's declared size.
AudioCells == {fc \in Usize \X (0..4) : fc[1] < abframes /\ fc[2] < abchannels}

\* C22: for an AudioBuffer of any size, frames == 0 included,
\* get_sample(frame, channel) returns None exactly when frame >= frames or
\* channel >= channel count, and otherwise the sample last written at that
\* (frame, channel), silence if none was: a new buffer reads silence in
\* every cell, a set_sample inside the size makes its cell read the sample
\* and leaves every other cell's reading as it was, and a set_sample outside
\* the size changes nothing and does not panic.
C22_SampleAccess ==
    /\ AudioAlive => \A fc \in AudioCells : GetSampleValue(fc[1], fc[2]) = Silence
    /\ [][/\ GetSampleCalled =>
               /\ abret'.val = "none" <=> \/ abret'.frame >= abframes
                                          \/ abret'.channel >= abchannels
               /\ abret'.sample = GetSampleValue(abret'.frame, abret'.channel)
               /\ abdata' = abdata
          /\ SetSampleCalled =>
               /\ abret'.val = "ok"
               /\ IF <<abret'.frame, abret'.channel>> \in AudioCells
                  THEN \A fc \in AudioCells :
                         GetSampleValue(fc[1], fc[2])' =
                            IF fc = <<abret'.frame, abret'.channel>>
                            THEN abret'.sample
                            ELSE GetSampleValue(fc[1], fc[2])
                  ELSE abdata' = abdata]_vars

\* C23: after any sequence of new, set_target, set_immediate, next and
\* advance calls, samples_remaining == 0 implies current == target.
C23_IdleAtTarget == samples_remaining = 0 => current = target

\* An advance longer than what was left of a ramp ended the ramp.
C23_Witness ==
    /\ spret.op = "advance" /\ spret.samples > MaxRamp
    /\ samples_remaining = 0
    /\ increment # 0
    /\ current = target

\* C24: from any state of the parameter, set_target(t, n) followed by
\* exactly n calls of next() leaves current == t and is_smoothing() false,
\* for every n >= 0 (with n == 0 at once); after fewer than n calls the
\* parameter is still smoothing.
C24_RampEndsOnTarget ==
    spramp.nexts >= 0 =>
        IF spramp.nexts = spramp.samples
        THEN current = spramp.target /\ samples_remaining = 0
        ELSE samples_remaining > 0

\* A ramp of the longest length has been followed to its end by calls of
\* next() alone, and the last call returned the target.
C24_Witness ==
    /\ spramp.nexts = MaxRamp /\ spramp.samples = MaxRamp
    /\ spret.op = "next" /\ spret.val = spramp.target
    /\ increment # 0
    /\ current = spramp.target /\ samples_remaining = 0

\* n successive calls of next() on parameter p.
RECURSIVE NextTimes(_, _)
NextTimes(p, n) == IF n = 0 THEN p ELSE NextTimes(NextOf(p), n - 1)

\* A call of advance is made in this step.
AdvanceCalled == spret'.op = "advance" /\ spvars' # spvars

\* C25: for every state of the parameter and every n, advance(n) leaves
\* current, target and samples_remaining as n successive calls of next()
\* leave them: n == 0, n beyond samples_remaining and an idle parameter
\* included.
C25_AdvanceIsNextTimes ==
    [][AdvanceCalled =>
         LET p == NextTimes(Param, spret'.samples)
         IN /\ current' = p.current
            /\ target' = p.target
            /\ samples_remaining' = p.samples_remaining]_vars

\* ------------------------------------------------------------------------
\* Part 6 claims: dsp effects
\* ------------------------------------------------------------------------

\* The step is a process call.
ProcessCalled == fxret'.op = "process"

\* C26: process on a GainEffect, a PanEffect or a BiquadFilter whose enabled
\* flag is false leaves every sample of the block as it was, and leaves the
\* smoothed parameters, the filter histories, the coefficients and the
\* dirty flag as they were.
C26_DisabledIsPassThrough ==
    [][(ProcessCalled /\ ~fxenabled) =>
          /\ fxret'.out = fxret'.block
          /\ fxret'.val = "ok"
          /\ UNCHANGED <<fxkind, fxenabled, fxrate, fxparams, fxfilter>>]_vars

\* A disabled BiquadFilter with a frequency ramp pending and coeffs_dirty
\* set was handed a full stereo block.
C26_Witness ==
    /\ fxret.op = "process"
    /\ ~fxenabled
    /\ fxkind = "biquad"
    /\ fxdirty
    /\ fxparams.frequency.samples_remaining > 0
    /\ fxret.channels = 2
    /\ Len(fxret.block) = MaxBlock

\* C29: PanEffect::process on a layout other than stereo leaves the block
\* as it was: only a frame of exactly two samples is written.
C29_PanLeavesNonStereo ==
    [][(ProcessCalled /\ fxkind = "pan" /\ fxret'.channels # 2) =>
          fxret'.out = fxret'.block]_vars

\* An enabled PanEffect off the left end was handed a whole quad frame and
\* returned.
C29_Witness ==
    /\ fxret.op = "process"
    /\ fxkind = "pan"
    /\ fxenabled
    /\ fxret.val = "ok"
    /\ fxret.channels = 4
    /\ Len(fxret.block) >= 4
    /\ fxparams.pan.current > -One

\* A parameter of the filter is still ramping (is_smoothing).
AnyRamping == \E n \in DOMAIN fxparams : fxparams[n].samples_remaining > 0

\* C27: process on an enabled BiquadFilter recomputes the coefficients if
\* and only if coeffs_dirty is set or one of frequency, Q and gain is still
\* ramping; when neither holds the cached coefficients stay as they were;
\* and after a recomputation coeffs_dirty is false and the coefficients are
\* those of the parameters' current values.
C27_RecomputedIffDirtyOrRamping ==
    [][(ProcessCalled /\ fxkind = "biquad" /\ fxenabled) =>
          /\ fxret'.derived <=> (fxdirty \/ AnyRamping)
          /\ ~(fxdirty \/ AnyRamping) => fxcoeffs' = fxcoeffs
          /\ fxret'.derived =>
                /\ ~fxdirty'
                /\ fxcoeffs' = UpdateCoefficients(fxtype, fxrate, fxparams')
      ]_vars

\* A process call recomputed the coefficients and cleared coeffs_dirty with
\* the frequency ramp one sample from its end: the next call recomputes for
\* the ramp alone.
C27_Witness ==
    /\ fxkind = "biquad"
    /\ fxret.op = "process"
    /\ fxret.derived
    /\ ~fxdirty
    /\ fxparams.frequency.samples_remaining = 1
    /\ fxparams.q.samples_remaining = 0
    /\ fxparams.gain_db.samples_remaining = 0

\* C28: the coefficients of a BiquadFilter are always derived from a
\* frequency between the 20 Hz and 20 kHz marks that is also below half the
\* sample rate, a Q between the 0.1 and 20 marks and a gain between the
\* -24 dB and +24 dB marks, whatever the constructor and the setters were
\* passed.
C28_DerivationInRange ==
    fxkind = "biquad" =>
        /\ fxcoeffs.freq >= FreqMin /\ fxcoeffs.freq <= FreqMax
        /\ fxcoeffs.freq <= HalfBand(AsHz(fxrate))
        /\ fxcoeffs.q >= QMin /\ fxcoeffs.q <= QMax
        /\ fxcoeffs.gain >= GainDbMin /\ fxcoeffs.gain <= GainDbMax

\* ------------------------------------------------------------------------
\* Part 7 claims: error classification
\* ------------------------------------------------------------------------

\* C30: is_recoverable answers true for every ring-buffer-full,
\* ring-buffer-empty and buffer-underrun error; is_fatal answers true for
\* every device-not-found, device-access, channel-send-failed and
\* channel-receive-failed error; no error gets true from both; and the error
\* of a failed push, pop or try_send on a full queue is recoverable and not
\* fatal.
C30_ErrorClasses ==
    /\ errval.variant \in {"RingBufferFull", "RingBufferEmpty", "BufferUnderRun"}
          => errrec \in {"none", "true"}
    /\ errval.variant \in {"DeviceNotFound", "DeviceAccess", "ChannelSendFailed",
                        "ChannelRecvFailed"}
          => errfat \in {"none", "true"}
    /\ ~(errrec = "true" /\ errfat = "true")
    /\ errfrom \in {"push", "pop", "try_send_full"}
          => errrec \in {"none", "true"} /\ errfat \in {"none", "false"}

\* try_send found the queue full, and its error was asked both questions.
C30_Witness ==
    /\ errfrom = "try_send_full"
    /\ errval.variant = "RingBufferFull"
    /\ errrec = "true"
    /\ errfat = "false"

\* C31: after initialize(rate, channels) on a BiquadFilter, for each of the
\* four sample rates, the coefficients are derived with fs equal to that
\* rate, and the frequency is clamped below half of it (at fs * 0.49).
C31_FsIsTheRate ==
    (fxkind = "biquad" /\ fxret.op = "initialize") =>
        /\ fxcoeffs.fs = AsHz(fxrate)
        /\ fxcoeffs.freq <= HalfBand(AsHz(fxrate))

\* The calls that set a smoothed parameter.
SetterOps == {"set_gain_db", "set_pan", "set_frequency", "set_q"}

\* C32: the first process call after a parameter was set, on an enabled
\* effect, leaves that parameter still ramping if it was handed fewer
\* frames than samples_for_milliseconds(10), and leaves it on its target
\* with the ramp finished if it was handed that many frames or more,
\* whatever the channel count.
C32_RampTakesTheWindow ==
    [][(ProcessCalled /\ fxenabled /\ fxret.op \in SetterOps
           /\ fxret'.val = "ok") =>
          LET frames == Len(fxret'.block) \div fxret'.channels
              window == SamplesFor10Ms(fxrate)
          IN \A n \in DOMAIN fxparams :
                fxparams[n].samples_remaining = window =>
                    IF frames < window
                    THEN fxparams'[n].samples_remaining > 0
                    ELSE /\ fxparams'[n].samples_remaining = 0
                         /\ fxparams'[n].current = fxparams'[n].target
      ]_vars

\* C33: reset on a GainEffect, a PanEffect or a BiquadFilter leaves every
\* smoothed parameter on the target it had, with no ramp left; on a
\* BiquadFilter it leaves the history of all 8 channels at zero, the
\* coefficients derived from the targets and coeffs_dirty false; the
\* enabled flag is as it was.
C33_ResetSnaps ==
    [][(fxret'.op = "reset") =>
          /\ \A n \in DOMAIN fxparams :
                /\ fxparams'[n].target = fxparams[n].target
                /\ fxparams'[n].current = fxparams[n].target
                /\ fxparams'[n].samples_remaining = 0
          /\ fxenabled' = fxenabled
          /\ fxkind = "biquad" =>
                /\ \A ch \in 0..7 :
                      fxstates'[ch] = [x1 |-> 0, x2 |-> 0, y1 |-> 0, y2 |-> 0]
                /\ ~fxdirty'
                /\ fxcoeffs' =
                      UpdateCoefficients(fxtype, fxrate,
                          [n \in DOMAIN fxparams |->
                              SmoothParamNew(fxparams[n].target)])
      ]_vars

\* A disabled BiquadFilter whose frequency and Q had been set was reset.
C33_Witness ==
    /\ fxret.op = "reset"
    /\ fxkind = "biquad"
    /\ ~fxenabled
    /\ fxparams.frequency.current = FreqMin
    /\ fxparams.q.current = QMin
    /\ fxcoeffs.freq = FreqMin

\* The history of channel ch after the whole frames of a block, from frame
\* f (0-based) on, as the shift x2' = x1, x1' = input, y2' = y1,
\* y1' = output applied to that channel's samples alone.
RECURSIVE HistoryAfter(_, _, _, _, _, _)
HistoryAfter(st, block, out, ch, n, f) ==
    IF (f + 1) * n > Len(block) THEN st
    ELSE LET i == f * n + ch + 1
         IN HistoryAfter([x1 |-> block[i], x2 |-> st.x1,
                          y1 |-> out[i], y2 |-> st.y1],
                         block, out, ch, n, f + 1)

\* Every output of channel ch is the difference equation on the input and
\* on that channel's own history.
RECURSIVE OutputsOwn(_, _, _, _, _, _)
OutputsOwn(st, block, out, ch, n, f) ==
    IF (f + 1) * n > Len(block) THEN TRUE
    ELSE LET i == f * n + ch + 1
         IN /\ out[i] = block[i] + st.x1 + st.x2 - st.y1
            /\ OutputsOwn([x1 |-> block[i], x2 |-> st.x1,
                           y1 |-> out[i], y2 |-> st.y1],
                          block, out, ch, n, f + 1)

\* C34: process on an enabled BiquadFilter runs each channel of the block
\* through that channel's own history: the history of channel ch is shifted
\* once per whole frame by that channel's input and output, each output
\* depends on that channel's history alone, the channels beyond the layout
\* keep their history, the layout never has more than the 8 channels there
\* are states for, and the samples of a trailing partial frame are left as
\* they were.
C34_PerChannelHistory ==
    [][(ProcessCalled /\ fxkind = "biquad" /\ fxenabled) =>
          LET block == fxret'.block
              out == fxret'.out
              n == fxret'.channels
              whole == (Len(block) \div n) * n
          IN /\ n <= 8
             /\ DOMAIN fxstates' = 0..7
             /\ Len(out) = Len(block)
             /\ \A ch \in 0..7 :
                   IF ch < n
                   THEN /\ fxstates'[ch] =
                             HistoryAfter(fxstates[ch], block, out, ch, n, 0)
                        /\ OutputsOwn(fxstates[ch], block, out, ch, n, 0)
                   ELSE fxstates'[ch] = fxstates[ch]
             /\ \A i \in (whole + 1)..Len(block) : out[i] = block[i]
      ]_vars

\* A block of one 5.1 frame and one sample more was processed after channel
\* 0 had run alone: channel 0 is two samples ahead of channel 5, channel 6
\* has seen nothing.
C34_Witness ==
    /\ fxkind = "biquad"
    /\ fxret.op = "process"
    /\ fxret.channels = 6
    /\ Len(fxret.block) = 7
    /\ fxret.out[7] = fxret.block[7]
    /\ fxstates[0].x2 = One /\ fxstates[0].y2 # 0
    /\ fxstates[5].x1 = One /\ fxstates[5].x2 = 0
    /\ fxstates[6] = BiquadStateZero

\* ------------------------------------------------------------------------
\* Part 8 claims: sample rates and stream callbacks
\* ------------------------------------------------------------------------

\* C37: SampleRate::try_from(r.as_hz()) returns Ok(r) for every supported
\* rate r, and every other u32 is answered with InvalidSampleRate carrying
\* that value.
C37_RoundTrip ==
    srret.res # "none" =>
        IF srrate # "none"
        THEN srret = RateOk(srrate)
        ELSE srret = RateErr(ErrorOf("InvalidSampleRate", srvalue))

\* The samples output_callback popped during its current or last call.
PoppedInCall == SubSeq(sttaken, stmark + 1, Len(sttaken))

\* C35: when output_callback returns, every element of data is written: the
\* samples it popped, in the order popped, and silence at every position
\* reached after a pop that found the ring buffer empty.
C35_SilenceAfterEmpty ==
    (stkind = "output" /\ stpc = "idle" /\ stret.op = "output_callback") =>
        LET data == stret.data
        IN  /\ \A i \in DOMAIN data : data[i] # Unwritten
            /\ SelectSeq(data, LAMBDA v : v # Silence) = PoppedInCall
            /\ \A i, j \in DOMAIN data :
                   (i < j /\ data[i] = Silence) => data[j] = Silence

\* s can be had from t by leaving elements out.
RECURSIVE IsSubsequence(_, _)
IsSubsequence(s, t) ==
    IF s = <<>> THEN TRUE
    ELSE IF t = <<>> THEN FALSE
    ELSE IF Head(s) = Head(t) THEN IsSubsequence(Tail(s), Tail(t))
    ELSE IsSubsequence(s, Tail(t))

\* The samples that went into the ring buffer: those the reader has popped
\* and those still queued.
Accepted == sttaken \o stq

InRing(v) == \E k \in DOMAIN Accepted : Accepted[k] = v

\* C39: input_callback never blocks: a pass of its loop can always be taken,
\* it pushes the sample if a slot is free and drops it otherwise, and goes
\* on with the following sample either way; the samples that reach the
\* reader are an order-preserving subsequence of the samples handed to the
\* callbacks, and a prefix of the block when the reader popped nothing
\* during the callback.
C39_DropsAndGoesOn ==
    /\ [](stkind = "input" =>
            /\ (stpc = "input_callback" => ENABLED InputCallbackStep)
            /\ IsSubsequence(Accepted, stoffered)
            /\ (stpc = "idle" /\ stret.op = "input_callback" /\ ~stfar) =>
                   \A i, j \in DOMAIN stret.data :
                       (i < j /\ InRing(stret.data[j]))
                           => InRing(stret.data[i]))
    /\ [][(stpc = "input_callback" /\ sti' # sti) =>
            /\ stq' = IF Len(stq) < stcap THEN Append(stq, stdata[sti])
                                          ELSE stq
            /\ sti' = sti + 1
            /\ stpc' = "input_callback"]_vars

\* An input_callback has returned that dropped a sample of its block and
\* pushed a later one, the reader having popped in between.
C39_Witness ==
    /\ stkind = "input" /\ stpc = "idle" /\ stret.op = "input_callback"
    /\ \E i, j \in DOMAIN stret.data :
           i < j /\ ~InRing(stret.data[i]) /\ InRing(stret.data[j])

\* What holds of output_callback whatever the other thread does: every
\* element is written, and the elements that are not silence are the samples
\* popped, in the order popped.
OutputBlockWritten ==
    (stkind = "output" /\ stpc = "idle" /\ stret.op = "output_callback") =>
        LET data == stret.data
        IN  /\ \A i \in DOMAIN data : data[i] # Unwritten
            /\ SelectSeq(data, LAMBDA v : v # Silence) = PoppedInCall
            /\ (~stfar => \A i, j \in DOMAIN data :
                   (i < j /\ data[i] = Silence) => data[j] = Silence)

\* The parameters with every ramp at its end: each current value is the
\* target.
OnTarget(params) ==
    [n \in DOMAIN params |-> [params[n] EXCEPT !.current = params[n].target]]

\* C38: in every state of a BiquadFilter in which coeffs_dirty is false and
\* none of frequency, Q and gain is ramping, the cached coefficients are the
\* ones update_coefficients derives from the current frequency, Q, gain and
\* the stored sample rate, and these are the ones it derives from the
\* targets.
C38_CacheIsCoherent ==
    (fxkind = "biquad" /\ ~fxdirty /\ ~AnyRamping) =>
        /\ fxcoeffs = UpdateCoefficients(fxtype, fxrate, fxparams)
        /\ fxcoeffs = UpdateCoefficients(fxtype, fxrate, OnTarget(fxparams))

\* A frequency ramp begun at one rate has finished in a process call after
\* the filter was initialized for another rate.
C38_Witness ==
    /\ fxkind = "biquad"
    /\ fxret.op = "process"
    /\ fxret.derived
    /\ ~fxdirty
    /\ ~AnyRamping
    /\ fxrate = "Hz44100"
    /\ fxparams.frequency.current # FreqDefault
    /\ fxcoeffs.fs = AsHz("Hz44100")

\* The slice of the push_all under way fitted in the slots that were free
\* when the call began.
FitsAtStart == Len(wall) <= capacity - wstart.qlen

\* C36: a push_all returns only if its slice fitted in the slots free when
\* it began or the reader has removed an element since, so with a reader
\* that has stalled for good or is dropped a longer slice keeps it spinning
\* for ever; and a push_all whose slice fits in the free slots returns Ok
\* with the slice enqueued, whether or not the reader ever pops.
C36_PushAllNoTimeout ==
    /\ [][(PushAllLoop /\ wpc' = "idle")
             => (FitsAtStart \/ Len(removed) > wstart.rem)]_vars
    /\ (InPushAll /\ FitsAtStart) ~> (wpc = "idle" /\ wret.op = "push_all")
    /\ [][(PushAllLoop /\ wpc' = "idle" /\ Len(removed) = wstart.rem)
             => /\ wret' = WRet("push_all", "none", Len(wall))
                /\ SubSeq(queue', wstart.qlen + 1, Len(queue')) = wall]_vars

\* The reader is dropped and a push_all has filled the ring buffer with the
\* first part of its slice: it spins with the rest.
C36_Witness ==
    /\ InPushAll
    /\ rpc = "dropped"
    /\ capacity >= 1
    /\ Len(queue) = capacity
    /\ wremaining # <<>>
    /\ Len(wremaining) < Len(wall)

====
